---- MODULE Spec2Model ----
(***************************************************************************)
(* A model of the arky command-line client: the transport client's         *)
(* response classification (client.rs), the error model (error.rs), the    *)
(* configuration resolution and the config file (config.rs, main.rs,       *)
(* commands/config_cmd.rs) and the data-overlay builder (commands/mod.rs). *)
(*                                                                         *)
(* Text (a Rust String: a response body, a file's content, a message) is a *)
(* sequence of lexemes.  A lexeme is a record [k, v]: a punctuation mark,  *)
(* a quoted string literal, an integer literal, a run of bare characters   *)
(* (a "word") or white space.  serde_json is modelled as a parser of such  *)
(* sequences, and serde's derived Deserialize implementations as           *)
(* operators on the parsed tree.                                           *)
(***************************************************************************)
EXTENDS Integers, Sequences, FiniteSets, TLC

VARIABLES
    resp,       \* the HTTP response handed to handle_response
    hr_pc,      \* handle_response's position: "status", "text", "classify", "done"
    body,       \* the body text once resp.text() has returned it
    body_read,  \* whether resp.text() was called
    parsed,     \* whether handle_response called serde_json::from_str
    ret,        \* handle_response's result, NoRet until it returns
    file,       \* ~/.arky/config.json: None when it does not exist, else its text
    env,        \* the environment of the process: ARKY_* -> Option<String>
    argv,       \* the command line: the global flags given and the subcommand
    cli,        \* the four global options as passed to Config::resolve
    resolved,   \* the ResolvedConfig
    format,     \* the output::Format of the run
    pc,         \* main's position: "shell", "dispatch", "exit"; a call's: "call", "returned"
    result,     \* the handler's Result
    exit_code,  \* the exit code of the last process, None before any has exited
    last_set,   \* per config key, the value the last successful `config set` stored
    base,       \* merge_data's base: &mut Value
    overlay,    \* merge_data's overlay: Value
    base0,      \* the value of base when merge_data was called
    data,       \* parse_data's argument: Option<&str>
    stdin,      \* standard input: None when reading it fails, else its text
    fs,         \* the files parse_data may be pointed at: path -> None (unreadable) or text
    reads,      \* the sources read so far: standard input, files
    client,     \* the ArkyClient: base_url, business_id, token
    call,       \* the client method called and its arguments
    form,       \* upload's multipart::Form: the parts added so far
    requests,   \* the HTTP requests sent so far
    stderr,     \* what the process has written to standard error
    stdout,     \* what the process has written to standard output
    procs       \* two processes run at the same time: each one's position and Config

respVars == <<resp, hr_pc, body, body_read, parsed, ret>>
procVars == <<file, env, argv, cli, resolved, format, pc, result, exit_code, last_set>>
mergeVars == <<base, overlay, base0>>
dataVars == <<data, stdin, fs, reads>>
clientVars == <<client, call, form>>
outVars == <<requests, stderr, stdout>>
raceVars == <<procs>>
vars == <<respVars, procVars, mergeVars, dataVars, clientVars, outVars, raceVars>>

(***************************************************************************)
(* Bounds of the model.                                                    *)
(***************************************************************************)
\* the most top-level keys of a JSON object handed to merge_data
MaxKeys == 2
\* the longest validationErrors list a response body holds
MaxValidationErrors == 2
\* the most global flags on one command line
MaxFlags == 1
\* the most ARKY_* variables set in one environment
MaxEnvVars == 1
\* the most files handed to one upload
MaxFiles == 3

(***************************************************************************)
(* Option<T>.                                                              *)
(***************************************************************************)
None == [some |-> FALSE]
Some(x) == [some |-> TRUE, v |-> x]

\* The variables of a part of the program that a specification leaves out.
RespIdle ==
    /\ resp = None /\ hr_pc = "idle" /\ body = None /\ body_read = FALSE
    /\ parsed = FALSE /\ ret = None
ProcIdle ==
    /\ file = None /\ env = None /\ argv = None /\ cli = None /\ resolved = None
    /\ format = None /\ pc = "idle" /\ result = None /\ exit_code = None
    /\ last_set = None
MergeIdle == base = None /\ overlay = None /\ base0 = None
DataIdle == data = None /\ stdin = None /\ fs = None /\ reads = None
ClientIdle == client = None /\ call = None /\ form = None
OutIdle == requests = None /\ stderr = None /\ stdout = None
RaceIdle == procs = None

(***************************************************************************)
(* Lexemes and text.                                                       *)
(***************************************************************************)
Punct(c) == [k |-> "punct", v |-> c]
Str(s) == [k |-> "str", v |-> s]
Num(n) == [k |-> "num", n |-> n]
Word(s) == [k |-> "word", v |-> s]
Ws == [k |-> "ws", v |-> " "]
\* a line feed: white space to serde_json, not allowed in a header value
Lf == [k |-> "ws", v |-> "\n"]

IsPunct(tok, c) == tok.k = "punct" /\ tok.v = c

\* The Rust String holding the characters s (no quotes around them).
Plain(s) == <<Word(s)>>

(***************************************************************************)
(* JSON as the deserializer meets it: an object (JObj) is the sequence of  *)
(* its members in source order, repeated keys included.  A                 *)
(* serde_json::Value holds an object as a Map (VObj): a function from its  *)
(* keys to their values.                                                   *)
(***************************************************************************)
JNull == [t |-> "null"]
JBool(b) == [t |-> "bool", b |-> b]
JNum(n) == [t |-> "num", n |-> n]
JStr(s) == [t |-> "str", v |-> s]
JArr(a) == [t |-> "arr", a |-> a]
JObj(m) == [t |-> "members", m |-> m]
VObj(o) == [t |-> "obj", o |-> o]
EmptyMap == [key \in {} |-> JNull]

ParseFail == [ok |-> FALSE]
ParseOk(val, next) == [ok |-> TRUE, val |-> val, next |-> next]

RECURSIVE SkipWs(_, _)
SkipWs(txt, i) ==
    IF i <= Len(txt) /\ txt[i].k = "ws" THEN SkipWs(txt, i + 1) ELSE i

RECURSIVE ParseValue(_, _)
RECURSIVE ParseElements(_, _, _)
RECURSIVE ParseMembers(_, _, _)

\* One JSON value starting at or after position i.
ParseValue(txt, i) ==
    LET j == SkipWs(txt, i) IN
    IF j > Len(txt) THEN ParseFail
    ELSE LET tok == txt[j] IN
         CASE tok.k = "str" -> ParseOk(JStr(tok.v), j + 1)
           [] tok.k = "num" -> ParseOk(JNum(tok.n), j + 1)
           [] tok.k = "word" ->
                IF tok.v = "null" THEN ParseOk(JNull, j + 1)
                ELSE IF tok.v = "true" THEN ParseOk(JBool(TRUE), j + 1)
                ELSE IF tok.v = "false" THEN ParseOk(JBool(FALSE), j + 1)
                ELSE ParseFail
           [] tok.k = "punct" ->
                IF tok.v = "[" THEN ParseElements(txt, j + 1, <<>>)
                ELSE IF tok.v = "{" THEN ParseMembers(txt, j + 1, <<>>)
                ELSE ParseFail
           [] OTHER -> ParseFail

\* The elements of an array, after "[" or after a ",".
ParseElements(txt, i, acc) ==
    LET j == SkipWs(txt, i) IN
    IF j > Len(txt) THEN ParseFail
    ELSE IF acc = <<>> /\ IsPunct(txt[j], "]") THEN ParseOk(JArr(<<>>), j + 1)
    ELSE LET r == ParseValue(txt, j) IN
         IF ~r.ok THEN ParseFail
         ELSE LET n == SkipWs(txt, r.next) IN
              IF n > Len(txt) THEN ParseFail
              ELSE IF IsPunct(txt[n], ",")
                   THEN ParseElements(txt, n + 1, Append(acc, r.val))
              ELSE IF IsPunct(txt[n], "]")
                   THEN ParseOk(JArr(Append(acc, r.val)), n + 1)
              ELSE ParseFail

\* The members of an object, after "{" or after a ",".
ParseMembers(txt, i, acc) ==
    LET j == SkipWs(txt, i) IN
    IF j > Len(txt) THEN ParseFail
    ELSE IF acc = <<>> /\ IsPunct(txt[j], "}") THEN ParseOk(JObj(<<>>), j + 1)
    ELSE IF txt[j].k # "str" THEN ParseFail
    ELSE LET c == SkipWs(txt, j + 1) IN
         IF c > Len(txt) \/ ~IsPunct(txt[c], ":") THEN ParseFail
         ELSE LET r == ParseValue(txt, c + 1) IN
              IF ~r.ok THEN ParseFail
              ELSE LET n == SkipWs(txt, r.next)
                       m == Append(acc, <<txt[j].v, r.val>>) IN
                   IF n > Len(txt) THEN ParseFail
                   ELSE IF IsPunct(txt[n], ",") THEN ParseMembers(txt, n + 1, m)
                   ELSE IF IsPunct(txt[n], "}") THEN ParseOk(JObj(m), n + 1)
                   ELSE ParseFail

\* Deserializer::end: after the value r, only white space to the end
end(txt, r) ==
    IF r.ok /\ SkipWs(txt, r.next) > Len(txt)
    THEN [ok |-> TRUE, val |-> r.val]
    ELSE ParseFail

\* serde_json::from_str: one value, then only white space to the end.
from_str(txt) == end(txt, ParseValue(txt, 1))

RECURSIVE to_Value(_)
\* Value's Deserialize: the members go into a Map, the last of a repeated key wins
to_Value(j) ==
    CASE j.t = "members" ->
           VObj([key \in { j.m[i][1] : i \in DOMAIN j.m } |->
                   to_Value(j.m[CHOOSE i \in DOMAIN j.m :
                                  /\ j.m[i][1] = key
                                  /\ \A n \in DOMAIN j.m : j.m[n][1] = key => n <= i][2])])
      [] j.t = "arr" -> JArr([i \in DOMAIN j.a |-> to_Value(j.a[i])])
      [] OTHER -> j

\* Value's Deserialize on the outcome p of the parser
de_Value(p) == IF p.ok THEN [ok |-> TRUE, val |-> to_Value(p.val)] ELSE ParseFail

\* serde_json::from_str::<Value>
from_str_Value(txt) == de_Value(from_str(txt))

(***************************************************************************)
(* serde's derived Deserialize for the error model (error.rs).  A struct   *)
(* is read from a JSON object (visit_map: unknown members are skipped, a   *)
(* repeated known member is an error, a missing Option member is None, a   *)
(* missing #[serde(default)] member is its default) or from a JSON array   *)
(* holding the fields in declaration order (visit_seq).                    *)
(***************************************************************************)
U16Max == 65535

DeFail == [ok |-> FALSE]
DeOk(x) == [ok |-> TRUE, val |-> x]

KeyIdx(m, key) == {i \in DOMAIN m : m[i][1] = key}
HasDuplicate(m, keys) == \E key \in keys : Cardinality(KeyIdx(m, key)) > 1
Member(m, key) ==
    IF KeyIdx(m, key) = {} THEN None
    ELSE Some(m[CHOOSE i \in KeyIdx(m, key) : TRUE][2])

\* String
de_String(j) == IF j.t = "str" THEN DeOk(Plain(j.v)) ELSE DeFail

\* Option<String>: null is None
de_Option_String(j) ==
    IF j.t = "null" THEN DeOk(None)
    ELSE IF j.t = "str" THEN DeOk(Some(Plain(j.v)))
    ELSE DeFail

\* Option<u16>: null is None, an integer outside 0..65535 is an error
de_Option_u16(j) ==
    IF j.t = "null" THEN DeOk(None)
    ELSE IF j.t = "num" /\ j.n >= 0 /\ j.n <= U16Max THEN DeOk(Some(j.n))
    ELSE DeFail

\* ValidationError {field: String, error: String}
de_ValidationError(j) ==
    IF j.t = "members"
    THEN LET m == j.m
             f == Member(m, "field")
             e == Member(m, "error") IN
         IF HasDuplicate(m, {"field", "error"}) \/ ~f.some \/ ~e.some THEN DeFail
         ELSE IF ~de_String(f.v).ok \/ ~de_String(e.v).ok THEN DeFail
         ELSE DeOk([field |-> de_String(f.v).val, error |-> de_String(e.v).val])
    ELSE IF j.t = "arr"
    THEN IF Len(j.a) # 2 THEN DeFail
         ELSE IF ~de_String(j.a[1]).ok \/ ~de_String(j.a[2]).ok THEN DeFail
         ELSE DeOk([field |-> de_String(j.a[1]).val, error |-> de_String(j.a[2]).val])
    ELSE DeFail

\* Vec<ValidationError>: an array, each element in order; null is an error
de_Vec_ValidationError(j) ==
    IF j.t # "arr" THEN DeFail
    ELSE IF \E i \in DOMAIN j.a : ~de_ValidationError(j.a[i]).ok THEN DeFail
    ELSE DeOk([i \in DOMAIN j.a |-> de_ValidationError(j.a[i]).val])

ApiErrorResponse(message, error, status_code, validation_errors) ==
    [message |-> message, error |-> error, status_code |-> status_code,
     validation_errors |-> validation_errors]

\* variant: validation_errors without #[serde(default)], objects only
de_ApiErrorResponseMutNoDefault(j) ==
    IF j.t = "members"
    THEN LET m == j.m
             msg == Member(m, "message")
             err == Member(m, "error")
             code == Member(m, "statusCode")
             ves == Member(m, "validationErrors")
             dmsg == IF msg.some THEN de_Option_String(msg.v) ELSE DeOk(None)
             derr == IF err.some THEN de_Option_String(err.v) ELSE DeOk(None)
             dcode == IF code.some THEN de_Option_u16(code.v) ELSE DeOk(None)
             dves == IF ves.some THEN de_Vec_ValidationError(ves.v) ELSE DeFail IN
         IF HasDuplicate(m, {"message", "error", "statusCode", "validationErrors"})
         THEN DeFail
         ELSE IF ~dmsg.ok \/ ~derr.ok \/ ~dcode.ok \/ ~dves.ok THEN DeFail
         ELSE DeOk(ApiErrorResponse(dmsg.val, derr.val, dcode.val, dves.val))
    ELSE DeFail

\* ApiErrorResponse, #[serde(rename_all = "camelCase")]
de_ApiErrorResponse(j) ==
    IF j.t = "members"
    THEN LET m == j.m
             msg == Member(m, "message")
             err == Member(m, "error")
             code == Member(m, "statusCode")
             ves == Member(m, "validationErrors")
             dmsg == IF msg.some THEN de_Option_String(msg.v) ELSE DeOk(None)
             derr == IF err.some THEN de_Option_String(err.v) ELSE DeOk(None)
             dcode == IF code.some THEN de_Option_u16(code.v) ELSE DeOk(None)
             dves == IF ves.some THEN de_Vec_ValidationError(ves.v) ELSE DeOk(<<>>) IN
         IF HasDuplicate(m, {"message", "error", "statusCode", "validationErrors"})
         THEN DeFail
         ELSE IF ~dmsg.ok \/ ~derr.ok \/ ~dcode.ok \/ ~dves.ok THEN DeFail
         ELSE DeOk(ApiErrorResponse(dmsg.val, derr.val, dcode.val, dves.val))
    ELSE IF j.t = "arr"
    THEN LET a == j.a
             dves == IF Len(a) = 4 THEN de_Vec_ValidationError(a[4]) ELSE DeOk(<<>>) IN
         IF Len(a) < 3 \/ Len(a) > 4 THEN DeFail
         ELSE IF ~de_Option_String(a[1]).ok \/ ~de_Option_String(a[2]).ok
                 \/ ~de_Option_u16(a[3]).ok \/ ~dves.ok THEN DeFail
         ELSE DeOk(ApiErrorResponse(de_Option_String(a[1]).val,
                                    de_Option_String(a[2]).val,
                                    de_Option_u16(a[3]).val, dves.val))
    ELSE DeFail

\* ApiErrorResponse's Deserialize on the outcome p of the parser
de_ApiErrorResponse_of(p) == IF p.ok THEN de_ApiErrorResponse(p.val) ELSE DeFail

\* serde_json::from_str::<ApiErrorResponse>
from_str_ApiErrorResponse(txt) == de_ApiErrorResponse_of(from_str(txt))

(***************************************************************************)
(* Result<Value, CliError> (error.rs).                                     *)
(***************************************************************************)
NoRet == [kind |-> "none"]
Ok(v) == [kind |-> "Ok", value |-> v]
ErrHttp == [kind |-> "Http"]
ErrJson == [kind |-> "Json"]
ErrConfig == [kind |-> "Config"]
ErrInvalidInput == [kind |-> "InvalidInput"]
ErrIo == [kind |-> "Io"]
Unit == [t |-> "unit"]

\* Result::unwrap_or, on the outcome d of a deserialization
unwrap_or(d, dflt) == IF d.ok THEN d.val ELSE dflt
\* Result::map_err(|e| err), on the outcome p of a deserialization
map_err(p, err) == IF p.ok THEN Ok(p.val) ELSE err
ErrApi(status, message, error, validation_errors) ==
    [kind |-> "Api", status |-> status, message |-> message, error |-> error,
     validation_errors |-> validation_errors]

(***************************************************************************)
(* ArkyClient::handle_response (client.rs), after resp.text() returned     *)
(* the body: the classification of (status, body).                         *)
(***************************************************************************)
\* variant: the fallback carries no message
RawTextFallbackMutNoMessage(status, text) ==
    ApiErrorResponse(None, None, Some(status), <<>>)

\* The fallback of unwrap_or: the raw body as the message.
RawTextFallback(status, text) == ApiErrorResponse(Some(text), None, Some(status), <<>>)

\* variant: the status is the body's statusCode when it names one
ApiErrMutStatusFromBody(status, api_err) ==
    ErrApi(IF api_err.status_code.some THEN api_err.status_code.v ELSE status,
           IF api_err.message.some THEN api_err.message.v ELSE Plain("Request failed"),
           api_err.error, api_err.validation_errors)

\* CliError::Api built from the parsed or synthesized ApiErrorResponse.
ApiErr(status, api_err) ==
    ErrApi(status,
           IF api_err.message.some THEN api_err.message.v ELSE Plain("Request failed"),
           api_err.error, api_err.validation_errors)

\* variant: no test for the empty body
ClassifyMutNoEmptyCheck(status, text) ==
    IF status >= 400
    THEN ApiErr(status, unwrap_or(from_str_ApiErrorResponse(text),
                                  RawTextFallback(status, text)))
    ELSE map_err(from_str_Value(text), ErrJson)

\* variant: a body that is not JSON counts as no body
ClassifyMutJsonAsNull(status, text) ==
    IF status >= 400
    THEN ApiErr(status, unwrap_or(from_str_ApiErrorResponse(text),
                                  RawTextFallback(status, text)))
    ELSE IF text = <<>> THEN Ok(JNull)
    ELSE map_err(from_str_Value(text), Ok(JNull))

Classify(status, text) ==
    IF status >= 400
    THEN ApiErr(status, unwrap_or(from_str_ApiErrorResponse(text),
                                  RawTextFallback(status, text)))
    ELSE IF text = <<>> THEN Ok(JNull)
    ELSE map_err(from_str_Value(text), ErrJson)

\* Whether Classify calls serde_json::from_str.
ClassifyParses(status, text) == status >= 400 \/ text # <<>>

(***************************************************************************)
(* The responses a server may send: a status and a body.  A body is        *)
(* described by its shape and written out as text by Encode.               *)
(*   junk    a text that is not JSON (empty, prose, truncated JSON, ...)   *)
(*   json    a JSON value that is no error object                          *)
(*   object  a JSON object with the members of the error wire shape, each  *)
(*           absent, null, a string, a number or (validationErrors) a list,*)
(*           and possibly a member the wire shape does not name            *)
(*   seq     a JSON array holding message, error, statusCode and           *)
(*           validationErrors by position                                  *)
(***************************************************************************)
Absent == [p |-> "absent"]
NullF == [p |-> "null"]
StrF(s) == [p |-> "str", v |-> s]
NumF(n) == [p |-> "num", n |-> n]
ListF(l) == [p |-> "list", l |-> l]

Statuses == {200, 204, 399, 400, 422, 500}

MessageChoices == {Absent, NullF, StrF("not found"), NumF(5)}
ErrorChoices == {Absent, NullF, StrF("NOT_FOUND")}
StatusCodeChoices == {Absent, NumF(404), NumF(70000), StrF("404")}
EntryChoices ==
    { [field |-> StrF("email"), error |-> StrF("required"), extra |-> FALSE],
      [field |-> StrF("name"), error |-> StrF("too long"), extra |-> TRUE],
      [field |-> StrF("email"), error |-> Absent, extra |-> FALSE] }

SeqsUpTo(S, n) == UNION { [1..k -> S] : k \in 0..n }

ValidationErrorsChoices ==
    {Absent, NullF} \cup { ListF(l) : l \in SeqsUpTo(EntryChoices, MaxValidationErrors) }

ObjectShapes ==
    [form : {"object"}, message : MessageChoices, error : ErrorChoices,
     statusCode : StatusCodeChoices, validationErrors : ValidationErrorsChoices,
     extra : BOOLEAN]

SeqShapes ==
    [form : {"seq"}, message : {NullF, StrF("not found")}, error : {NullF},
     statusCode : {NullF, NumF(404)},
     validationErrors : {Absent, ListF(<<>>),
                         ListF(<<[field |-> StrF("email"), error |-> StrF("required"),
                                  extra |-> FALSE]>>)}]

JunkTexts ==
    { <<>>,
      <<Ws>>,
      Plain("internal error"),
      <<Punct("{")>>,
      <<Punct("{"), Str("message"), Punct(":"), Str("not found")>>,
      <<Punct("{"), Str("message"), Punct(":"), Str("not found"), Punct(","), Punct("}")>>,
      <<Punct("{"), Str("message"), Punct(":"), Str("not found"), Punct("}"),
        Word("trailing")>>,
      <<Punct("["), Num(1), Punct(",")>> }

JsonTexts ==
    { <<Str("internal error")>>,
      <<Num(500)>>,
      <<Word("null")>>,
      <<Word("true")>>,
      <<Punct("["), Punct("]")>>,
      <<Punct("["), Str("a"), Punct(","), Str("b")  , Punct("]")>>,
      <<Punct("{"), Str("message"), Punct(":"), Str("first"), Punct(","),
        Str("message"), Punct(":"), Str("second"), Punct("}")>>,
      <<Ws, Punct("["), Punct("["), Num(1), Punct("]"), Punct(","), Ws, Punct("{"),
        Str("a"), Punct(":"), Word("null"), Punct("}"), Punct("]"), Ws>> }

Shapes ==
    ObjectShapes \cup SeqShapes
      \cup [form : {"junk"}, text : JunkTexts] \cup [form : {"json"}, text : JsonTexts]

RECURSIVE Join(_)
\* The texts of a sequence, separated by commas.
Join(texts) ==
    IF texts = <<>> THEN <<>>
    ELSE IF Len(texts) = 1 THEN texts[1]
    ELSE texts[1] \o <<Punct(",")>> \o Join(Tail(texts))

RECURSIVE EncodeField(_)
EncodeEntry(e) ==
    <<Punct("{")>>
      \o Join( (IF e.field.p = "absent" THEN <<>>
                ELSE << <<Str("field"), Punct(":")>> \o EncodeField(e.field) >>)
            \o (IF e.extra THEN << <<Str("code"), Punct(":"), Num(7)>> >> ELSE <<>>)
            \o (IF e.error.p = "absent" THEN <<>>
                ELSE << <<Str("error"), Punct(":")>> \o EncodeField(e.error) >>) )
      \o <<Punct("}")>>

EncodeField(c) ==
    CASE c.p = "null" -> <<Word("null")>>
      [] c.p = "str" -> <<Str(c.v)>>
      [] c.p = "num" -> <<Num(c.n)>>
      [] c.p = "list" ->
           <<Punct("[")>> \o Join([i \in DOMAIN c.l |-> EncodeEntry(c.l[i])])
             \o <<Punct("]")>>

EncodeMember(key, c) ==
    IF c.p = "absent" THEN <<>> ELSE << <<Str(key), Punct(":")>> \o EncodeField(c) >>

\* The body text of a shape.
Encode(shape) ==
    CASE shape.form \in {"junk", "json"} -> shape.text
      [] shape.form = "object" ->
           <<Punct("{")>>
             \o Join(EncodeMember("message", shape.message)
                     \o (IF shape.extra
                         THEN << <<Ws, Str("data"), Punct(":"), Punct("["), Num(1),
                                   Punct(","), Punct("{"), Punct("}"), Punct("]"), Ws>> >>
                         ELSE <<>>)
                     \o EncodeMember("error", shape.error)
                     \o EncodeMember("statusCode", shape.statusCode)
                     \o EncodeMember("validationErrors", shape.validationErrors))
             \o <<Punct("}")>>
      [] shape.form = "seq" ->
           <<Punct("[")>>
             \o Join(<<EncodeField(shape.message), EncodeField(shape.error),
                       EncodeField(shape.statusCode)>>
                     \o (IF shape.validationErrors.p = "absent" THEN <<>>
                         ELSE <<EncodeField(shape.validationErrors)>>))
             \o <<Punct("]")>>

Responses == { [status |-> st, shape |-> sh, body |-> Encode(sh)] : st \in Statuses, sh \in Shapes }

(***************************************************************************)
(* ArkyClient::handle_response as a state machine: the status check, the   *)
(* await of resp.text(), the classification.                               *)
(***************************************************************************)
\* variant: 204 is not told apart
NoContentMutNever(status) == FALSE

\* client.rs line 136
NoContent(status) == status = 204

InitResp ==
    /\ resp \in Responses
    /\ hr_pc = "status"
    /\ body = None
    /\ body_read = FALSE
    /\ parsed = FALSE
    /\ ret = NoRet
    /\ ProcIdle
    /\ MergeIdle /\ RaceIdle
    /\ DataIdle /\ ClientIdle /\ OutIdle

\* let status = resp.status().as_u16(); if status == 204 { return Ok(Value::Null); }
HrStatus ==
    /\ hr_pc = "status"
    /\ IF NoContent(resp.status)
       THEN ret' = Ok(JNull) /\ hr_pc' = "done"
       ELSE ret' = ret /\ hr_pc' = "text"
    /\ UNCHANGED <<resp, body, body_read, parsed, procVars, mergeVars, raceVars, dataVars, clientVars, outVars>>

\* let body = resp.text().await?;  the transport may fail while the body is read
HrText ==
    /\ hr_pc = "text"
    /\ body_read' = TRUE
    /\ \E ok \in BOOLEAN :
         IF ok
         THEN body' = Some(resp.body) /\ hr_pc' = "classify" /\ ret' = ret
         ELSE body' = body /\ hr_pc' = "done" /\ ret' = ErrHttp
    /\ UNCHANGED <<resp, parsed, procVars, mergeVars, raceVars, dataVars, clientVars, outVars>>

\* the rest of handle_response
HrClassify ==
    /\ hr_pc = "classify"
    /\ ret' = Classify(resp.status, body.v)
    /\ parsed' = ClassifyParses(resp.status, body.v)
    /\ hr_pc' = "done"
    /\ UNCHANGED <<resp, body, body_read, procVars, mergeVars, raceVars, dataVars, clientVars, outVars>>

NextResp == HrStatus \/ HrText \/ HrClassify

SpecResp == InitResp /\ [][NextResp]_vars

(***************************************************************************)
(* The error wire shape, stated on the description of the body: message    *)
(* and error are absent, null or a string, statusCode is absent, null or a *)
(* number a u16 holds, validationErrors is absent or a list of entries     *)
(* with a string field and a string error.                                 *)
(***************************************************************************)
OptionalString(c) == c.p \in {"absent", "null", "str"}
OptionalU16(c) == c.p \in {"absent", "null"} \/ (c.p = "num" /\ c.n \in 0..U16Max)
EntryList(c) ==
    \/ c.p = "absent"
    \/ c.p = "list" /\ \A i \in DOMAIN c.l : c.l[i].field.p = "str" /\ c.l[i].error.p = "str"

HasErrorShape(shape) ==
    /\ shape.form \in {"object", "seq"}
    /\ OptionalString(shape.message)
    /\ OptionalString(shape.error)
    /\ OptionalU16(shape.statusCode)
    /\ EntryList(shape.validationErrors)

ShapeMessage(shape) ==
    IF shape.message.p = "str" THEN Plain(shape.message.v) ELSE Plain("Request failed")
ShapeError(shape) ==
    IF shape.error.p = "str" THEN Some(Plain(shape.error.v)) ELSE None
ShapeEntries(shape) ==
    IF shape.validationErrors.p = "list"
    THEN [i \in DOMAIN shape.validationErrors.l |->
            [field |-> Plain(shape.validationErrors.l[i].field.v),
             error |-> Plain(shape.validationErrors.l[i].error.v)]]
    ELSE <<>>

HrDone == hr_pc = "done"
BodyWasRead == body.some

\* C1: a response with status >= 400 whose body was read yields Err(Api) with the
\* HTTP status of the response as its status, whatever the body holds (and whatever
\* statusCode the body names); it is never Ok and never a Json error.
C1_ApiErrorCarriesHttpStatus ==
    (HrDone /\ BodyWasRead /\ resp.status >= 400)
        => (ret.kind = "Api" /\ ret.status = resp.status)

C1_Witness ==
    /\ HrDone /\ BodyWasRead /\ resp.status = 422
    /\ resp.shape.form = "object" /\ HasErrorShape(resp.shape)
    /\ resp.shape.statusCode = NumF(404)
    /\ ret.kind = "Api" /\ ret.status = 422

\* C2: a response with status 204 yields Ok(Null) whatever its body holds, and the
\* body is neither read nor parsed.
C2_NoContentIsNull ==
    (HrDone /\ resp.status = 204) => (ret = Ok(JNull) /\ ~body_read /\ ~parsed)

C2_Witness ==
    /\ HrDone /\ resp.status = 204 /\ resp.body = Plain("internal error")
    /\ ret = Ok(JNull)

\* C3: a status below 400, other than 204, with an empty body yields Ok(Null), and
\* serde_json::from_str is not called.
C3_EmptyBodyIsNull ==
    (HrDone /\ BodyWasRead /\ resp.status < 400 /\ resp.status # 204 /\ body.v = <<>>)
        => (ret = Ok(JNull) /\ ~parsed)

C3_Witness ==
    HrDone /\ resp.status = 200 /\ body = Some(<<>>) /\ ret = Ok(JNull)

C5_StructuredErrorIsCarried ==
    (HrDone /\ BodyWasRead /\ resp.status >= 400 /\ HasErrorShape(resp.shape))
        => ret = ErrApi(resp.status, ShapeMessage(resp.shape), ShapeError(resp.shape),
                        ShapeEntries(resp.shape))

C5_Witness ==
    /\ HrDone /\ resp.status = 422
    /\ resp.shape.form = "object" /\ resp.shape.message = Absent
    /\ resp.shape.validationErrors.p = "list"
    /\ Len(resp.shape.validationErrors.l) = 2
    /\ ret.kind = "Api" /\ ret.message = Plain("Request failed")
    /\ ret.validation_errors =
         <<[field |-> Plain("email"), error |-> Plain("required")],
           [field |-> Plain("name"), error |-> Plain("too long")]>>

\* C6 as claimed: a status below 400 with a non-empty body that is not valid JSON
\* yields a Json error (the transport not having failed while the body was read).
C6_Original ==
    (HrDone /\ resp.status < 400 /\ resp.shape.form = "junk" /\ resp.body # <<>>
       /\ ret # ErrHttp)
        => ret = ErrJson

\* C6 as amended: a status below 400 other than 204, with a non-empty body that is
\* not valid JSON, yields a Json error, never an Api error and never Ok(Null).
C6_InvalidJsonIsJsonError ==
    (HrDone /\ BodyWasRead /\ resp.status < 400 /\ resp.status # 204
       /\ resp.shape.form = "junk" /\ body.v # <<>>)
        => ret = ErrJson

C6_Witness ==
    /\ HrDone /\ resp.status = 200 /\ body = Some(Plain("internal error"))
    /\ ret = ErrJson

(***************************************************************************)
(* The config file (config.rs): Config, its derived Deserialize and        *)
(* Serialize, load_file and save_file.                                     *)
(***************************************************************************)
Keys == {"base_url", "business_id", "token", "format"}
KeyOrder == <<"base_url", "business_id", "token", "format">>

\* Config::default()
ConfigDefault == [key \in Keys |-> None]

\* Config (derive Deserialize, every field #[serde(default)])
de_Config(j) ==
    IF j.t = "members"
    THEN LET m == j.m
             d == [key \in Keys |->
                     IF Member(m, key).some THEN de_Option_String(Member(m, key).v)
                     ELSE DeOk(None)] IN
         IF HasDuplicate(m, Keys) \/ \E key \in Keys : ~d[key].ok THEN DeFail
         ELSE DeOk([key \in Keys |-> d[key].val])
    ELSE IF j.t = "arr"
    THEN LET a == j.a
             d == [i \in 1..4 |-> IF i <= Len(a) THEN de_Option_String(a[i]) ELSE DeOk(None)] IN
         IF Len(a) > 4 \/ \E i \in 1..4 : ~d[i].ok THEN DeFail
         ELSE DeOk([key \in Keys |-> d[CHOOSE i \in 1..4 : KeyOrder[i] = key].val])
    ELSE DeFail

\* Config's Deserialize on the outcome p of the parser
de_Config_of(p) == IF p.ok THEN de_Config(p.val) ELSE DeFail

\* serde_json::from_str::<Config>
from_str_Config(txt) == de_Config_of(from_str(txt))

\* Config::load_file: a missing, unreadable or malformed file is Config::default()
load_file(f) ==
    IF f.some THEN unwrap_or(from_str_Config(f.v), ConfigDefault) ELSE ConfigDefault

\* Option<String> (Serialize): None is null
ser_Option_String(o) == IF o.some THEN <<Str(o.v[1].v)>> ELSE <<Word("null")>>

\* serde_json::to_string_pretty(&Config): every field, in declaration order
to_string_pretty(cfg) ==
    <<Punct("{"), Ws>>
      \o Join([i \in 1..4 |->
                 <<Str(KeyOrder[i]), Punct(":"), Ws>> \o ser_Option_String(cfg[KeyOrder[i]])])
      \o <<Ws, Punct("}")>>

\* Config::save_file, when create_dir_all and write succeed: the file's new content
save_file(cfg) == Some(to_string_pretty(cfg))

(***************************************************************************)
(* Config::resolve (config.rs) and main's use of it (main.rs).             *)
(***************************************************************************)
EnvVar ==
    [base_url |-> "ARKY_BASE_URL", business_id |-> "ARKY_BUSINESS_ID",
     token |-> "ARKY_TOKEN", format |-> "ARKY_FORMAT"]
EnvNames == {EnvVar[key] : key \in Keys}

\* Option::or / Option::or_else
or_else(a, b) == IF a.some THEN a ELSE b
\* Option::unwrap_or_else
unwrap_or_else(a, dflt) == IF a.some THEN a.v ELSE dflt

\* std::env::var(name).ok()
env_var(e, name) == e[name]

\* variant: the environment before the flag
ChainMutEnvFirst(flags, e, cfg, key) ==
    or_else(or_else(env_var(e, EnvVar[key]), flags[key]), cfg[key])

\* the chain of one field: flag, then environment, then file
Chain(flags, e, cfg, key) ==
    or_else(or_else(flags[key], env_var(e, EnvVar[key])), cfg[key])

ResolvedConfig(base_url, business_id, token, fmt) ==
    [base_url |-> base_url, business_id |-> business_id, token |-> token, format |-> fmt]

\* Config::resolve, lines 55-82: the four chains over the loaded file cfg
resolve_fields(flags, e, cfg) ==
    ResolvedConfig(
        unwrap_or_else(Chain(flags, e, cfg, "base_url"), Plain("http://localhost:3000")),
        Chain(flags, e, cfg, "business_id"),
        Chain(flags, e, cfg, "token"),
        unwrap_or_else(Chain(flags, e, cfg, "format"), Plain("json")))

\* Config::resolve(flag_base_url, flag_business_id, flag_token, flag_format)
resolve(flags, e, f) == resolve_fields(flags, e, load_file(f))

\* output::Format::from_str: the lower-cased name, anything unknown is Json
Format_from_str(t) ==
    IF t \in {Plain("table"), Plain("Table"), Plain("TABLE")} THEN "Table"
    ELSE IF t \in {Plain("plain"), Plain("Plain"), Plain("PLAIN")} THEN "Plain"
    ELSE "Json"

(***************************************************************************)
(* The inputs: the values each source may hold, the files, environments    *)
(* and flag sets.                                                          *)
(***************************************************************************)
FlagValue ==
    [base_url |-> Plain("http://flag-url"), business_id |-> Plain("biz_flag"),
     token |-> Plain("tok_flag"), format |-> Plain("plain")]
EnvValue ==
    [base_url |-> Plain("http://env-url"), business_id |-> Plain("biz_env"),
     token |-> Plain("tok_env"), format |-> Plain("table")]
FileValue ==
    [base_url |-> "http://file-url", business_id |-> "biz_file",
     token |-> "tok_file", format |-> "Table"]

\* the flag sets giving the keys of ks
FlagsOf(ks) == [key \in Keys |-> IF key \in ks THEN Some(FlagValue[key]) ELSE None]
\* the environments setting the variables of the keys of ks
EnvOf(ks) ==
    [name \in EnvNames |->
       IF \E key \in ks : EnvVar[key] = name
       THEN Some(EnvValue[CHOOSE key \in ks : EnvVar[key] = name]) ELSE None]

\* a config file written as a JSON object, each member absent, null or a string
FileObjects ==
    { [form |-> "object", members |-> ms] :
        ms \in [Keys -> {Absent, NullF} \cup {StrF("set")}] }

FileMember(key, c) ==
    IF c.p = "absent" THEN <<>>
    ELSE << <<Str(key), Punct(":")>>
              \o (IF c.p = "str" THEN <<Str(FileValue[key])>> ELSE EncodeField(c)) >>

EncodeFile(ms) ==
    <<Punct("{")>>
      \o Join(FileMember("format", ms["format"]) \o FileMember("token", ms["token"])
              \o FileMember("business_id", ms["business_id"])
              \o FileMember("base_url", ms["base_url"]))
      \o <<Punct("}")>>

\* files that do not deserialize: no JSON, a member of the wrong type, a repeated member
MalformedFiles ==
    { <<>>,
      Plain("not json"),
      <<Punct("{"), Str("base_url"), Punct(":"), Str("http://file-url"), Punct(","),
        Str("format"), Punct(":"), Num(5), Punct("}")>>,
      <<Punct("{"), Str("token"), Punct(":"), Str("tok_file"), Punct(","),
        Str("token"), Punct(":"), Str("tok_file"), Punct("}")>> }

Files ==
    {None} \cup { Some(EncodeFile(o.members)) : o \in FileObjects }
           \cup { Some(t) : t \in MalformedFiles }

(***************************************************************************)
(* Config::resolve called on its own, with every combination of flags,     *)
(* environment variables and config file.                                  *)
(***************************************************************************)
InitResolve ==
    /\ file \in Files
    /\ env \in { EnvOf(ks) : ks \in SUBSET Keys }
    /\ cli \in { FlagsOf(ks) : ks \in SUBSET Keys }
    /\ pc = "call"
    /\ argv = None /\ resolved = None /\ format = None /\ result = None
    /\ exit_code = None /\ last_set = None
    /\ RespIdle
    /\ MergeIdle /\ RaceIdle
    /\ DataIdle /\ ClientIdle /\ OutIdle

Resolve ==
    /\ pc = "call"
    /\ resolved' = resolve(cli, env, file)
    /\ pc' = "returned"
    /\ UNCHANGED <<file, env, argv, cli, format, result, exit_code, last_set, respVars, mergeVars, raceVars, dataVars, clientVars, outVars>>

NextResolve == Resolve

SpecResolve == InitResolve /\ [][NextResolve]_vars

\* The value the claimed precedence gives key: the flag, else the environment
\* variable, else the value load_file reads from the file, else the default.
Precedence(key, dflt) ==
    IF cli[key].some THEN cli[key]
    ELSE IF env[EnvVar[key]].some THEN env[EnvVar[key]]
    ELSE IF load_file(file)[key].some THEN load_file(file)[key]
    ELSE dflt

\* C7: Config::resolve gives each of base_url, business_id, token and format the
\* flag if set, else the environment variable if set, else the config-file value
\* if set, else the default ("http://localhost:3000", None, None, "json").
C7_ResolvePrecedence ==
    pc = "returned" =>
        /\ Some(resolved.base_url) = Precedence("base_url", Some(Plain("http://localhost:3000")))
        /\ resolved.business_id = Precedence("business_id", None)
        /\ resolved.token = Precedence("token", None)
        /\ Some(resolved.format) = Precedence("format", Some(Plain("json")))

\* base_url from the flag over both others, business_id from the environment over
\* the file, token from the file, format from the default.
C7_Witness ==
    /\ pc = "returned"
    /\ cli = FlagsOf({"base_url"})
    /\ env = EnvOf({"base_url", "business_id"})
    /\ file = Some(EncodeFile([key \in Keys |-> IF key = "format" THEN NullF ELSE StrF("set")]))
    /\ resolved = ResolvedConfig(Plain("http://flag-url"), Some(Plain("biz_env")),
                                 Some(Plain("tok_file")), Plain("json"))

(***************************************************************************)
(* The data-overlay builder (commands/mod.rs): merge_data.  A              *)
(* serde_json::Map is a function from its keys to their values.            *)
(***************************************************************************)
\* Map::insert: the key is added, or its value replaced
insert(map, key, value) ==
    [x \in DOMAIN map \cup {key} |-> IF x = key THEN value ELSE map[x]]

RECURSIVE InsertAll(_, _, _)
\* for (k, v) in overlay_map { base_map.insert(k, v); } over the keys ks still to come
InsertAll(base_map, overlay_map, ks) ==
    IF ks = {} THEN base_map
    ELSE LET key == CHOOSE x \in ks : TRUE IN
         InsertAll(insert(base_map, key, overlay_map[key]), overlay_map, ks \ {key})

\* variant of InsertAll: an object value of both maps is merged, not replaced
RECURSIVE DeepInsertAll(_, _, _)
DeepInsertAll(base_map, overlay_map, ks) ==
    IF ks = {} THEN base_map
    ELSE LET key == CHOOSE x \in ks : TRUE
             old == IF key \in DOMAIN base_map THEN base_map[key] ELSE JNull
             new == overlay_map[key]
             value == IF old.t = "obj" /\ new.t = "obj"
                      THEN VObj(DeepInsertAll(old.o, new.o, DOMAIN new.o))
                      ELSE new IN
         DeepInsertAll(insert(base_map, key, value), overlay_map, ks \ {key})

\* variant: nested objects are merged key by key
merge_dataMutDeep(b, o) ==
    IF b.t = "obj" /\ o.t = "obj"
    THEN VObj(DeepInsertAll(b.o, o.o, DOMAIN o.o))
    ELSE b

\* variant: base becomes the overlay
merge_dataMutAssign(b, o) ==
    IF b.t = "obj" /\ o.t = "obj" THEN o ELSE b

\* variant: a base that is not an object is replaced by an object overlay
merge_dataMutReplace(b, o) ==
    IF b.t = "obj" /\ o.t = "obj"
    THEN VObj(InsertAll(b.o, o.o, DOMAIN o.o))
    ELSE IF o.t = "obj" THEN o ELSE b

\* merge_data(base, overlay): the value of base afterwards
merge_data(b, o) ==
    IF b.t = "obj" /\ o.t = "obj"
    THEN VObj(InsertAll(b.o, o.o, DOMAIN o.o))
    ELSE b

\* the JSON values handed to merge_data
KeyNames == <<"id", "data", "name", "meta">>
TopKeys == { KeyNames[i] : i \in 1..MaxKeys }
MemberValues ==
    { JNum(1), JStr("a"), JArr(<<JNum(1), JNum(2)>>),
      VObj(EmptyMap), VObj([key \in {"x"} |-> JNum(1)]), VObj([key \in {"y"} |-> JNum(2)]) }
Objects == { VObj(o) : o \in UNION { [ks -> MemberValues] : ks \in SUBSET TopKeys } }
MergeValues == Objects \cup { JNull, JNum(1), JStr("a"), JArr(<<JNum(1), JNum(2)>>) }

InitMerge ==
    /\ base \in MergeValues
    /\ overlay \in MergeValues
    /\ base0 = base
    /\ pc = "call"
    /\ file = None /\ env = None /\ argv = None /\ cli = None /\ resolved = None
    /\ format = None /\ result = None /\ exit_code = None /\ last_set = None
    /\ RespIdle
    /\ DataIdle /\ ClientIdle /\ OutIdle /\ RaceIdle

MergeData ==
    /\ pc = "call"
    /\ base' = merge_data(base, overlay)
    /\ pc' = "returned"
    /\ UNCHANGED <<overlay, base0, file, env, argv, cli, resolved, format, result,
                   exit_code, last_set, respVars, dataVars, clientVars, outVars, raceVars>>

NextMerge == MergeData

SpecMerge == InitMerge /\ [][NextMerge]_vars

\* C9: for objects base and overlay, every key of both ends in base with exactly
\* the overlay's value, a scalar, an array or an object alike: a nested object is
\* replaced whole, not merged key by key.
C9_OverlayWins ==
    (pc = "returned" /\ base0.t = "obj" /\ overlay.t = "obj")
        => /\ base.t = "obj"
           /\ \A key \in DOMAIN base0.o \cap DOMAIN overlay.o : base.o[key] = overlay.o[key]

C9_Witness ==
    /\ pc = "returned" /\ base0.t = "obj" /\ overlay.t = "obj"
    /\ "data" \in DOMAIN base0.o \cap DOMAIN overlay.o
    /\ base0.o["data"] = VObj([key \in {"x"} |-> JNum(1)])
    /\ overlay.o["data"] = VObj([key \in {"y"} |-> JNum(2)])
    /\ base.o["data"] = VObj([key \in {"y"} |-> JNum(2)])

\* C10: merging the empty object leaves an object base as it was: the same keys
\* with the same values.
C10_EmptyOverlayIsNoOp ==
    (pc = "returned" /\ base0.t = "obj" /\ overlay = VObj(EmptyMap)) => base = base0

C10_Witness ==
    /\ pc = "returned" /\ overlay = VObj(EmptyMap)
    /\ base0.t = "obj" /\ DOMAIN base0.o = TopKeys
    /\ base = base0

\* C11: when base or overlay is not a JSON object (null, a scalar or an array),
\* merge_data returns and base is exactly what it was.
C11_NonObjectIsNoOp ==
    (pc = "returned" /\ (base0.t # "obj" \/ overlay.t # "obj")) => base = base0

\* an array base with an object overlay, and an object base with a null overlay
C11_Witness ==
    /\ pc = "returned" /\ base = base0
    /\ \/ base0 = JArr(<<JNum(1), JNum(2)>>) /\ overlay.t = "obj" /\ DOMAIN overlay.o = TopKeys
       \/ base0.t = "obj" /\ DOMAIN base0.o = TopKeys /\ overlay = JNull

(***************************************************************************)
(* The data-overlay builder (commands/mod.rs): parse_data, whose argument  *)
(* is the --data option of a command: None, "-", "@" and a path, or JSON.  *)
(***************************************************************************)
\* io::Result<String>
IoOk(text) == [ok |-> TRUE, text |-> text]
IoErr == [ok |-> FALSE]

\* std::io::stdin().read_to_string(&mut buf)
read_stdin(in) == IF in.some THEN IoOk(in.v) ELSE IoErr

\* std::fs::read_to_string(path): a file that is missing or unreadable is an error
read_to_string(files, path) ==
    IF path \in DOMAIN files /\ files[path].some THEN IoOk(files[path].v) ELSE IoErr

\* the entries of reads
StdinRead == [src |-> "stdin", path |-> <<>>]
FileRead(path) == [src |-> "file", path |-> path]

\* s.starts_with(c)
starts_with(s, c) == s # <<>> /\ s[1] = c

\* serde_json::from_str(text).map_err(|e| err)
from_str_map_err(text, err) == map_err(from_str_Value(text), err)

\* variant: no data is Value::Null
parse_dataMutNull(d, in, files) ==
    IF ~d.some THEN [result |-> Ok(JNull), reads |-> <<>>]
    ELSE IF d.v = <<Punct("-")>>
    THEN LET r == read_stdin(in) IN
         [result |-> IF r.ok THEN from_str_map_err(r.text, ErrInvalidInput) ELSE ErrInvalidInput,
          reads |-> <<StdinRead>>]
    ELSE IF starts_with(d.v, Punct("@"))
    THEN LET path == Tail(d.v)
             r == read_to_string(files, path) IN
         [result |-> IF r.ok THEN from_str_map_err(r.text, ErrInvalidInput) ELSE ErrInvalidInput,
          reads |-> <<FileRead(path)>>]
    ELSE [result |-> from_str_map_err(d.v, ErrInvalidInput), reads |-> <<>>]

\* variant: the errors go through From (error.rs lines 63-79), without map_err
parse_dataMutFrom(d, in, files) ==
    IF ~d.some THEN [result |-> Ok(VObj(EmptyMap)), reads |-> <<>>]
    ELSE IF d.v = <<Punct("-")>>
    THEN LET r == read_stdin(in) IN
         [result |-> IF r.ok THEN from_str_map_err(r.text, ErrJson) ELSE ErrIo,
          reads |-> <<StdinRead>>]
    ELSE IF starts_with(d.v, Punct("@"))
    THEN LET path == Tail(d.v)
             r == read_to_string(files, path) IN
         [result |-> IF r.ok THEN from_str_map_err(r.text, ErrJson) ELSE ErrIo,
          reads |-> <<FileRead(path)>>]
    ELSE [result |-> from_str_map_err(d.v, ErrJson), reads |-> <<>>]

\* parse_data(data), with standard input in and the files files: its result and
\* the sources it read
parse_data(d, in, files) ==
    IF ~d.some THEN [result |-> Ok(VObj(EmptyMap)), reads |-> <<>>]
    ELSE IF d.v = <<Punct("-")>>
    THEN LET r == read_stdin(in) IN
         [result |-> IF r.ok THEN from_str_map_err(r.text, ErrInvalidInput) ELSE ErrInvalidInput,
          reads |-> <<StdinRead>>]
    ELSE IF starts_with(d.v, Punct("@"))
    THEN LET path == Tail(d.v)
             r == read_to_string(files, path) IN
         [result |-> IF r.ok THEN from_str_map_err(r.text, ErrInvalidInput) ELSE ErrInvalidInput,
          reads |-> <<FileRead(path)>>]
    ELSE [result |-> from_str_map_err(d.v, ErrInvalidInput), reads |-> <<>>]

\* texts that are JSON and texts that are not
ObjectText == <<Punct("{"), Str("name"), Punct(":"), Ws, Str("a"), Punct("}")>>
ArrayText == <<Punct("["), Num(1), Punct(","), Num(2), Punct("]")>>
JsonDataTexts == { ObjectText, ArrayText, <<Word("null")>>, <<Num(1)>>, <<Punct("{"), Punct("}")>> }
JunkDataTexts == { <<>>, Plain("not json"), <<Punct("{"), Str("name"), Punct(":")>> }

\* the paths --data may name and the files behind them
DataPaths == { Plain("data.json"), <<Punct("-")>> }
DataFiles == {None} \cup { Some(t) : t \in {ObjectText, ArrayText, Plain("not json"), <<>>} }
Stdins == {None} \cup { Some(t) : t \in {ObjectText, <<Word("null")>>, Plain("not json"), <<>>} }

\* the values of --data: absent, "-", "- ", " -", "@", "@" and a path, inline text
DataArgs ==
    {None, Some(<<Punct("-")>>), Some(<<Punct("-"), Ws>>), Some(<<Ws, Punct("-")>>),
     Some(<<Punct("@")>>), Some(<<Punct("@")>> \o Plain("missing.json")),
     Some(<<Ws, Punct("@")>> \o Plain("data.json"))}
      \cup { Some(<<Punct("@")>> \o path) : path \in DataPaths }
      \cup { Some(t) : t \in JsonDataTexts \cup JunkDataTexts }

InitParse ==
    /\ data \in DataArgs
    /\ stdin \in Stdins
    /\ fs \in [DataPaths -> DataFiles]
    /\ reads = <<>>
    /\ pc = "call"
    /\ result = NoRet
    /\ file = None /\ env = None /\ argv = None /\ cli = None /\ resolved = None
    /\ format = None /\ exit_code = None /\ last_set = None
    /\ RespIdle /\ MergeIdle /\ RaceIdle /\ ClientIdle /\ OutIdle

\* the call of parse_data: result and reads after it
ParseDataCall ==
    \E r \in {parse_data(data, stdin, fs)} :
    /\ result' = r.result
    /\ reads' = reads \o r.reads
    /\ pc' = "returned"
    /\ UNCHANGED <<data, stdin, fs, file, env, argv, cli, resolved, format, exit_code,
                   last_set, respVars, mergeVars, raceVars, clientVars, outVars>>

\* None => ...
ParseDataNone == pc = "call" /\ ~data.some /\ ParseDataCall
\* Some("-") => ...
ParseDataStdin == pc = "call" /\ data = Some(<<Punct("-")>>) /\ ParseDataCall
\* Some(s) if s.starts_with('@') => ...
ParseDataFile ==
    /\ pc = "call" /\ data.some /\ data # Some(<<Punct("-")>>)
    /\ starts_with(data.v, Punct("@"))
    /\ ParseDataCall
\* Some(s) => ...
ParseDataInline ==
    /\ pc = "call" /\ data.some /\ data # Some(<<Punct("-")>>)
    /\ ~starts_with(data.v, Punct("@"))
    /\ ParseDataCall

NextParse == ParseDataNone \/ ParseDataStdin \/ ParseDataFile \/ ParseDataInline

SpecParse == InitParse /\ [][NextParse]_vars

\* C12: parse_data(None) returns Ok with the empty JSON object, never Null, an
\* array or an error, and it reads neither standard input nor any file.
C12_NoDataIsEmptyObject ==
    (pc = "returned" /\ ~data.some) => (result = Ok(VObj(EmptyMap)) /\ reads = <<>>)

\* no data, with standard input and both files holding JSON that is no empty object
C12_Witness ==
    /\ pc = "returned" /\ ~data.some
    /\ stdin = Some(ObjectText) /\ \A path \in DataPaths : fs[path] = Some(ArrayText)
    /\ result = Ok(VObj(EmptyMap))

\* the source the claim gives a --data value s
SourceOf(s) ==
    IF s = <<Punct("-")>> THEN "stdin"
    ELSE IF s # <<>> /\ s[1] = Punct("@") THEN "file"
    ELSE "inline"

\* the text behind the source of s, None when it cannot be read
SourceText(s) ==
    CASE SourceOf(s) = "stdin" -> stdin
      [] SourceOf(s) = "file" -> IF Tail(s) \in DOMAIN fs THEN fs[Tail(s)] ELSE None
      [] OTHER -> Some(s)

\* C13: a --data value is handled by exactly one source: exactly "-" reads
\* standard input, a value starting with "@" reads the file named by the rest, any
\* other value is parsed inline; and every failure (a source that cannot be read,
\* a text that is not JSON) is an InvalidInput error, never Io or Json.
C13_OneSourceAndInvalidInput ==
    (pc = "returned" /\ data.some) =>
        LET s == data.v
            text == SourceText(s) IN
        /\ reads = CASE SourceOf(s) = "stdin" -> <<StdinRead>>
                     [] SourceOf(s) = "file" -> <<FileRead(Tail(s))>>
                     [] OTHER -> <<>>
        /\ result.kind \in {"Ok", "InvalidInput"}
        /\ result.kind = "Ok" <=> (text.some /\ from_str_Value(text.v).ok)
        /\ result.kind = "Ok" => result.value = from_str_Value(text.v).val

\* "@-" reads the file named "-", not standard input, and the file is no JSON
C13_Witness ==
    /\ pc = "returned" /\ data = Some(<<Punct("@"), Punct("-")>>)
    /\ stdin = Some(ObjectText) /\ fs[<<Punct("-")>>] = Some(Plain("not json"))
    /\ reads = <<FileRead(<<Punct("-")>>)>>
    /\ result = ErrInvalidInput

(***************************************************************************)
(* The transport client (client.rs): ArkyClient, its headers, its six      *)
(* methods.  A method builds one request and hands it to send(); send()    *)
(* fails before the request left, fails after it left, or brings back a    *)
(* response, which handle_response classifies.                             *)
(***************************************************************************)
\* ArkyClient::new
ArkyClient_new(base_url, business_id, token) ==
    [base_url |-> base_url, business_id |-> business_id, token |-> token]

\* HeaderValue::from_str: fails on a control character
HeaderValue_from_str(text) ==
    IF \E i \in DOMAIN text : text[i].k = "ws" /\ text[i].v = "\n"
    THEN [ok |-> FALSE]
    ELSE [ok |-> TRUE, val |-> text]

HeaderMap_new == [h \in {} |-> <<>>]
ApplicationJson == Plain("application/json")
MultipartFormData == Plain("multipart/form-data; boundary=...")

\* format!("Bearer {token}")
Bearer(token) == <<Word("Bearer"), Ws>> \o token

\* if let Some(ref token) = self.token { if let Ok(val) = HeaderValue::from_str(..) { insert } }
insert_authorization(h, token) ==
    IF token.some /\ HeaderValue_from_str(Bearer(token.v)).ok
    THEN insert(h, "Authorization", HeaderValue_from_str(Bearer(token.v)).val)
    ELSE h

\* ArkyClient::headers
headers(c) ==
    insert_authorization(
        insert(insert(HeaderMap_new, "Content-Type", ApplicationJson), "Accept", ApplicationJson),
        c.token)

\* ArkyClient::auth_headers
auth_headers(c) ==
    insert_authorization(insert(HeaderMap_new, "Accept", ApplicationJson), c.token)

\* RequestBuilder::json: the body, and Content-Type unless the headers name one
builder_json(h) ==
    IF "Content-Type" \in DOMAIN h THEN h ELSE insert(h, "Content-Type", ApplicationJson)
\* RequestBuilder::multipart: the form, and its own Content-Type
builder_multipart(h) == insert(h, "Content-Type", MultipartFormData)

NoPayload == [kind |-> "none"]
JsonPayload(value) == [kind |-> "json", json |-> value]
MultipartPayload(parts) == [kind |-> "multipart", parts |-> parts]

Request(method, url, hdrs, query, payload) ==
    [method |-> method, url |-> url, headers |-> hdrs, query |-> query, payload |-> payload]

\* format!("{}{}", self.base_url, path)
Url(c, path) == c.base_url \o path

\* the requests the six methods build
GetRequest(c, cl) == Request("GET", Url(c, cl.path), headers(c), cl.params, NoPayload)
PostRequest(c, cl) ==
    Request("POST", Url(c, cl.path), builder_json(headers(c)), <<>>, JsonPayload(cl.body))
PutRequest(c, cl) ==
    Request("PUT", Url(c, cl.path), builder_json(headers(c)), <<>>, JsonPayload(cl.body))
DeleteRequest(c, cl) == Request("DELETE", Url(c, cl.path), headers(c), <<>>, NoPayload)
DeleteWithParamsRequest(c, cl) ==
    Request("DELETE", Url(c, cl.path), headers(c), cl.params, NoPayload)
UploadRequest(c, cl, parts) ==
    Request("POST", Url(c, cl.path), builder_multipart(auth_headers(c)), <<>>,
            MultipartPayload(parts))

\* the arguments of a call
Call(verb, path, params, value, files) ==
    [verb |-> verb, path |-> path, params |-> params, body |-> value, files |-> files]

\* ArkyClient::handle_response as a whole: the 204 test, resp.text(), the rest
handle_response(r, readable) ==
    IF NoContent(r.status) THEN Ok(JNull)
    ELSE IF ~readable THEN ErrHttp
    ELSE Classify(r.status, r.body)

\* what send() may come to: sent tells whether the request left, resp is the
\* response if one came back, readable whether its body can be read
Outcome(sent, r, readable) == [sent |-> sent, resp |-> r, readable |-> readable]
ClientResponses ==
    { [status |-> 200, body |-> ObjectText],
      [status |-> 200, body |-> Plain("not json")],
      [status |-> 204, body |-> <<>>],
      [status |-> 401, body |-> <<Punct("{"), Str("message"), Punct(":"), Str("Unauthorized"),
                                  Punct("}")>>],
      [status |-> 500, body |-> Plain("oops")],
      [status |-> 200, body |-> <<Punct("{"), Str("accessToken"), Punct(":"), Str("tok_new"),
                                  Punct("}")>>],
      [status |-> 200, body |-> <<Punct("{"), Str("accessToken"), Punct(":"), Num(5),
                                  Punct("}")>>] }
Outcomes ==
    { Outcome(FALSE, None, FALSE), Outcome(TRUE, None, FALSE) }
      \cup { Outcome(TRUE, Some(r), b) : r \in ClientResponses, b \in BOOLEAN }

\* variant: a request whose send() failed is sent once more
SentMutRetry(sofar, req, o) ==
    IF o.sent THEN (IF o.resp.some THEN Append(sofar, req) ELSE sofar \o <<req, req>>) ELSE sofar

\* the requests sent once send() has come to o
Sent(sofar, req, o) == IF o.sent THEN Append(sofar, req) ELSE sofar

\* .send().await? and self.handle_response(resp).await: the end of each method
Transport(req) ==
    \E o \in Outcomes :
        /\ requests' = Sent(requests, req, o)
        /\ result' = IF o.resp.some THEN handle_response(o.resp.v, o.readable) ELSE ErrHttp
        /\ pc' = "returned"
        /\ UNCHANGED <<file, env, argv, cli, resolved, format, exit_code, last_set,
                       client, call, form, stderr, stdout, respVars, mergeVars, raceVars, dataVars>>

Get == pc = "call" /\ call.verb = "get" /\ Transport(GetRequest(client, call))
Post == pc = "call" /\ call.verb = "post" /\ Transport(PostRequest(client, call))
Put == pc = "call" /\ call.verb = "put" /\ Transport(PutRequest(client, call))
Delete == pc = "call" /\ call.verb = "delete" /\ Transport(DeleteRequest(client, call))
DeleteWithParams ==
    pc = "call" /\ call.verb = "delete_with_params"
      /\ Transport(DeleteWithParamsRequest(client, call))

\* Part::mime_str: the text must be a media type, type "/" subtype
mime_str(text) ==
    IF Len(text) = 3 /\ text[1].k = "word" /\ text[2] = Punct("/") /\ text[3].k = "word"
    THEN [ok |-> TRUE, val |-> text]
    ELSE [ok |-> FALSE]

\* variant: the parts are numbered from 1
PartNameMutFromOne(i) == <<Word("files"), Punct("["), Num(i + 1), Punct("]")>>

\* format!("files[{i}]")
PartName(i) == <<Word("files"), Punct("["), Num(i), Punct("]")>>

\* multipart::Part::bytes(data).file_name(filename).mime_str(&mime), under a name
Part(name, f, mime) ==
    [name |-> name, file_name |-> f.filename, bytes |-> f.bytes, mime |-> mime]

\* upload: one turn of the for loop, for the file at index Len(form)
UploadPart ==
    /\ pc = "call" /\ call.verb = "upload" /\ Len(form) < Len(call.files)
    /\ LET i == Len(form)
           f == call.files[i + 1]
           m == mime_str(f.mime) IN
       IF m.ok
       THEN form' = Append(form, Part(PartName(i), f, m.val)) /\ UNCHANGED <<pc, result>>
       ELSE form' = form /\ result' = ErrInvalidInput /\ pc' = "returned"
    /\ UNCHANGED <<file, env, argv, cli, resolved, format, exit_code, last_set,
                   client, call, outVars, respVars, mergeVars, raceVars, dataVars>>

\* upload: after the loop
UploadSend ==
    /\ pc = "call" /\ call.verb = "upload" /\ Len(form) = Len(call.files)
    /\ Transport(UploadRequest(client, call, form))

\* str::to_lowercase, on the extensions in use
to_lowercase(e) ==
    CASE e = "PNG" -> "png" [] e = "Jpg" -> "jpg" [] e = "PDF" -> "pdf" [] OTHER -> e

MimeText(type, subtype) == <<Word(type), Punct("/"), Word(subtype)>>

\* media.rs, mime_from_ext
mime_from_ext(ext) ==
    LET e == IF ext.some THEN to_lowercase(ext.v) ELSE "" IN
    CASE ~ext.some -> MimeText("application", "octet-stream")
      [] e = "png" -> MimeText("image", "png")
      [] e \in {"jpg", "jpeg"} -> MimeText("image", "jpeg")
      [] e = "gif" -> MimeText("image", "gif")
      [] e = "webp" -> MimeText("image", "webp")
      [] e = "svg" -> MimeText("image", "svg+xml")
      [] e = "mp4" -> MimeText("video", "mp4")
      [] e = "webm" -> MimeText("video", "webm")
      [] e = "pdf" -> MimeText("application", "pdf")
      [] e = "json" -> MimeText("application", "json")
      [] e = "csv" -> MimeText("text", "csv")
      [] e = "txt" -> MimeText("text", "plain")
      [] e = "html" -> MimeText("text", "html")
      [] e = "css" -> MimeText("text", "css")
      [] e = "js" -> MimeText("application", "javascript")
      [] e = "zip" -> MimeText("application", "zip")
      [] e = "mp3" -> MimeText("audio", "mpeg")
      [] e = "wav" -> MimeText("audio", "wav")
      [] e = "avif" -> MimeText("image", "avif")
      [] e = "ico" -> MimeText("image", "x-icon")
      [] OTHER -> MimeText("application", "octet-stream")

\* a (filename, data, mime) of file_data, as media.rs builds it
FileData(filename, bytes, ext) ==
    [filename |-> filename, bytes |-> bytes, mime |-> mime_from_ext(ext)]

\* the files handed to upload
UploadFiles ==
    { FileData(Plain("photo.PNG"), Plain("bytes of photo"), Some("PNG")),
      FileData(Plain("notes"), Plain("bytes of notes"), None),
      FileData(Plain("report.pdf"), <<>>, Some("pdf")) }

\* the clients: no token, a token, the empty token, a token ending in a line feed
Tokens == {None, Some(Plain("tok_1")), Some(<<>>), Some(<<Word("tok_1"), Lf>>)}
Clients ==
    { ArkyClient_new(Plain("http://localhost:3000"), Some(Plain("biz_1")), t) : t \in Tokens }

NoParams == <<>>
Calls ==
    { Call("get", Plain("/v1/accounts/me"), NoParams, JNull, <<>>),
      Call("get", Plain("/v1/platform/data"),
           << <<"key", Plain("k")>>, <<"limit", Plain("20")>> >>, JNull, <<>>),
      Call("post", Plain("/v1/auth/session"), NoParams, VObj(EmptyMap), <<>>),
      Call("post", Plain("/v1/businesses"), NoParams,
           VObj([key \in {"key"} |-> JStr("shop")]), <<>>),
      Call("put", Plain("/v1/accounts"), NoParams, VObj([key \in {"name"} |-> JStr("a")]), <<>>),
      Call("delete", Plain("/v1/accounts"), NoParams, JNull, <<>>),
      Call("delete_with_params", Plain("/v1/platform/data"), << <<"key", Plain("k")>> >>,
           JNull, <<>>) }
      \cup { Call("upload", Plain("/v1/businesses/biz_1/media"), NoParams, JNull, fl) :
             fl \in SeqsUpTo(UploadFiles, MaxFiles) }

InitClient ==
    /\ client \in Clients
    /\ call \in Calls
    /\ form = <<>>
    /\ requests = <<>>
    /\ stderr = <<>>
    /\ stdout = <<>>
    /\ pc = "call"
    /\ result = NoRet
    /\ file = None /\ env = None /\ argv = None /\ cli = None /\ resolved = None
    /\ format = None /\ exit_code = None /\ last_set = None
    /\ RespIdle /\ MergeIdle /\ RaceIdle /\ DataIdle

NextClient == Get \/ Post \/ Put \/ Delete \/ DeleteWithParams \/ UploadPart \/ UploadSend

SpecClient == InitClient /\ [][NextClient]_vars

\* C14: for every sequence of n files handed to upload, the multipart form holds
\* exactly n parts when it is sent, the part built from the file at position i
\* (counting from 0) is named "files[i]", and the parts are in input order.
C14_UploadPartNames ==
    call.verb = "upload" =>
        /\ Len(form) <= Len(call.files)
        /\ \A n \in 1..Len(form) :
             /\ form[n].name = <<Word("files"), Punct("["), Num(n - 1), Punct("]")>>
             /\ form[n].file_name = call.files[n].filename
             /\ form[n].bytes = call.files[n].bytes
        /\ \A n \in 1..Len(requests) :
             /\ requests[n].payload.kind = "multipart"
             /\ requests[n].payload.parts = form
             /\ Len(form) = Len(call.files)

\* three files, the first of them twice, sent as files[0], files[1], files[2]
C14_Witness ==
    /\ pc = "returned" /\ call.verb = "upload" /\ Len(call.files) = 3
    /\ call.files[1] = call.files[3] /\ call.files[1] # call.files[2]
    /\ Len(requests) = 1
    /\ requests[1].payload.parts[1].name = <<Word("files"), Punct("["), Num(0), Punct("]")>>
    /\ requests[1].payload.parts[3].name = <<Word("files"), Punct("["), Num(2), Punct("]")>>
    /\ requests[1].payload.parts[3].file_name = call.files[3].filename

\* C20: every get/post/put/delete/delete_with_params request carries Content-Type:
\* application/json and Accept: application/json; every upload request carries
\* Accept: application/json and no application/json content type; every request
\* carries Authorization: Bearer <token> whenever a token is configured, for every
\* token string, and no Authorization header when none is configured.
C20_HeaderContract ==
    \A n \in 1..Len(requests) :
        LET h == requests[n].headers
            Has(name, value) == name \in DOMAIN h /\ h[name] = value IN
        /\ Has("Accept", Plain("application/json"))
        /\ IF call.verb = "upload"
           THEN ~Has("Content-Type", Plain("application/json"))
           ELSE Has("Content-Type", Plain("application/json"))
        /\ IF client.token.some
           THEN Has("Authorization", <<Word("Bearer"), Ws>> \o client.token.v)
           ELSE "Authorization" \notin DOMAIN h

(***************************************************************************)
(* impl fmt::Display for CliError (error.rs): the text of an error.        *)
(***************************************************************************)
\* variant: the validation errors follow the header on its line
EntryTextMutInline(ve) == <<Word(", ")>> \o ve.field \o <<Word(": ")>> \o ve.error

\* write!(f, "\n  - {}: {}", ve.field, ve.error)
EntryText(ve) == <<Lf, Word("  - ")>> \o ve.field \o <<Word(": ")>> \o ve.error

RECURSIVE EntriesText(_)
\* for ve in validation_errors { write!(..)?; }
EntriesText(ves) ==
    IF ves = <<>> THEN <<>> ELSE EntryText(Head(ves)) \o EntriesText(Tail(ves))

\* write!(f, "API error ({status}): {message}") and, for Some(err), " [{err}]"
HeaderText(e) ==
    <<Word("API error ("), Num(e.status), Word("): ")>> \o e.message
      \o (IF e.error.some THEN <<Word(" [")>> \o e.error.v \o <<Word("]")>> ELSE <<>>)

\* the prefixes of the other kinds; what follows the prefix is the message of
\* the library or of the handler, which the error values here do not carry
Prefix ==
    [Http |-> "HTTP error: ", Config |-> "Config error: ",
     InvalidInput |-> "Invalid input: ", Io |-> "IO error: ", Json |-> "JSON error: "]

\* CliError's Display::fmt, as e.to_string()
to_string(e) ==
    IF e.kind = "Api" THEN HeaderText(e) \o EntriesText(e.validation_errors)
    ELSE <<Word(Prefix[e.kind])>>

(***************************************************************************)
(* The process: main (main.rs) from Cli::parse to the exit, run again and  *)
(* again from a shell, the config file living on between the runs.         *)
(***************************************************************************)
\* output::print_success and output::print_error: a line on standard error, "OK"
\* and a message, or "ERROR" and the text of the error
OkLine == [tag |-> "OK"]
ErrorLine(e) == [tag |-> "ERROR", err |-> e, text |-> to_string(e)]
print_success(err_stream) == Append(err_stream, OkLine)
print_error(err_stream, e) == Append(err_stream, ErrorLine(e))

\* output::print_output: the value on standard output, rendered as fmt says
print_output(out_stream, value, fmt) == Append(out_stream, [value |-> value, fmt |-> fmt])
\* println!("{}", text)
println(out_stream, text) == Append(out_stream, [text |-> text])

\* config_cmd.rs lines 43-55: the object `config show` prints; a token of at most
\* 20 characters, as every token here is, is shown whole
ShowDisplay(r) ==
    [base_url |-> r.base_url, business_id |-> r.business_id, token |-> r.token,
     format |-> r.format, config_file |-> Plain("~/.arky/config.json")]

\* the subcommands of `arky config` and the keys and values given to `config set`
SetKeys == {"base_url", "base-url", "business_id", "business-id", "token", "format", "colour"}
SetValue ==
    [base_url |-> Plain("http://set-url"), business_id |-> Plain("biz_set"),
     token |-> Plain("tok_set"), format |-> Plain("table")]

\* config_cmd.rs lines 61-64: the field a key names, None for an unknown key
KeyField(k) ==
    IF k \in {"base_url", "base-url"} THEN Some("base_url")
    ELSE IF k \in {"business_id", "business-id"} THEN Some("business_id")
    ELSE IF k = "token" THEN Some("token")
    ELSE IF k = "format" THEN Some("format")
    ELSE None

Commands ==
    {[name |-> "config show"], [name |-> "config path"]}
      \cup { [name |-> "config set", key |-> k,
              value |-> IF KeyField(k).some THEN SetValue[KeyField(k).v] ELSE Plain("red")] :
             k \in SetKeys }

UpTo(S, n) == { ks \in SUBSET S : Cardinality(ks) <= n }
Argvs == { [flags |-> FlagsOf(ks), cmd |-> c] : ks \in UpTo(Keys, MaxFlags), c \in Commands }
Envs == { EnvOf(ks) : ks \in UpTo(Keys, MaxEnvVars) }

\* #[arg(..., default_value = "json")] on format, no default on the others
ClapDefault ==
    [base_url |-> None, business_id |-> None, token |-> None, format |-> Some(Plain("json"))]

\* Cli::parse (clap, #[arg(long, global = true, env = "ARKY_...")]): the flag given
\* on the command line, else the environment variable, else the default value
Cli_parse(flags, e) ==
    [key \in Keys |-> or_else(or_else(flags[key], env_var(e, EnvVar[key])), ClapDefault[key])]

InitFiles ==
    { None,
      Some(Plain("not json")),
      Some(EncodeFile([key \in Keys |-> Absent])),
      Some(EncodeFile([key \in Keys |-> StrF("set")])) }

Init ==
    /\ file \in InitFiles
    /\ pc = "shell"
    /\ env = None /\ argv = None /\ cli = None /\ resolved = None /\ format = None
    /\ result = NoRet
    /\ exit_code = None
    /\ last_set = [key \in Keys |-> None]
    /\ requests = <<>>
    /\ stderr = <<>>
    /\ stdout = <<>>
    /\ RespIdle /\ MergeIdle /\ RaceIdle /\ DataIdle /\ ClientIdle

\* main, lines 210-225, run with a command line of A: parse the command line,
\* resolve the configuration, build the client
StartWith(A) ==
    /\ pc = "shell"
    /\ \E a \in A, e \in Envs :
         \E r \in {resolve(Cli_parse(a.flags, e), e, file)} :
             /\ argv' = a
             /\ env' = e
             /\ cli' = Cli_parse(a.flags, e)
             /\ resolved' = r
             /\ format' = Format_from_str(r.format)
             /\ client' = ArkyClient_new(r.base_url, r.business_id, r.token)
    /\ result' = NoRet
    /\ requests' = <<>>
    /\ stderr' = <<>>
    /\ stdout' = <<>>
    /\ pc' = "dispatch"
    /\ UNCHANGED <<file, exit_code, last_set, call, form, respVars, mergeVars, raceVars, dataVars>>

Start == StartWith(Argvs)

\* config_cmd::handle, ConfigCommand::Show: prints the resolved configuration
ConfigShow ==
    /\ pc = "dispatch" /\ argv.cmd.name = "config show"
    /\ stdout' = print_output(stdout, ShowDisplay(resolved), format)
    /\ result' = Ok(Unit)
    /\ pc' = "exit"
    /\ UNCHANGED <<file, env, argv, cli, resolved, format, exit_code, last_set, requests,
                   stderr, respVars, mergeVars, raceVars, dataVars, clientVars>>

\* config_cmd::handle, ConfigCommand::Path: prints the path of the file
ConfigPath ==
    /\ pc = "dispatch" /\ argv.cmd.name = "config path"
    /\ stdout' = println(stdout, Plain("~/.arky/config.json"))
    /\ result' = Ok(Unit)
    /\ pc' = "exit"
    /\ UNCHANGED <<file, env, argv, cli, resolved, format, exit_code, last_set, requests,
                   stderr, respVars, mergeVars, raceVars, dataVars, clientVars>>

\* variant: the field goes into a fresh Config
set_fieldMutFresh(cfg, field, value) == [ConfigDefault EXCEPT ![field] = Some(value)]

\* config_cmd.rs lines 61-64: cfg.<field> = Some(value)
set_field(cfg, field, value) == [cfg EXCEPT ![field] = Some(value)]

\* config_cmd::handle, ConfigCommand::Set: load the file, set the field, save
ConfigSet ==
    /\ pc = "dispatch" /\ argv.cmd.name = "config set"
    /\ LET field == KeyField(argv.cmd.key)
           cfg == load_file(file) IN
       IF ~field.some
       THEN result' = ErrInvalidInput /\ UNCHANGED <<file, last_set, stderr>>
       ELSE \E saved \in BOOLEAN :
              IF saved
              THEN /\ file' = save_file(set_field(cfg, field.v, argv.cmd.value))
                   /\ last_set' = [last_set EXCEPT ![field.v] = Some(argv.cmd.value)]
                   /\ stderr' = print_success(stderr)
                   /\ result' = Ok(Unit)
              ELSE /\ result' = ErrIo
                   /\ UNCHANGED <<file, last_set, stderr>>
    /\ pc' = "exit"
    /\ UNCHANGED <<env, argv, cli, resolved, format, exit_code, requests, stdout, respVars,
                   mergeVars, raceVars, dataVars, clientVars>>

\* variant: an exit code of its own for the errors of the local configuration
ExitCodeMutPerKind(r) ==
    IF r.kind = "Ok" THEN 0 ELSE IF r.kind \in {"Config", "InvalidInput"} THEN 2 ELSE 1

\* main, lines 252-255: std::process::exit(1) on Err, the end of main otherwise
ExitCode(r) == IF r.kind = "Ok" THEN 0 ELSE 1

\* main, lines 252-255: the error goes to standard error, the process ends and
\* with it its client, its arguments and its environment
Exit ==
    /\ pc = "exit"
    /\ stderr' = IF result.kind = "Ok" THEN stderr ELSE print_error(stderr, result)
    /\ exit_code' = Some(ExitCode(result))
    /\ pc' = "shell"
    /\ env' = None /\ argv' = None /\ cli' = None /\ resolved' = None /\ format' = None
    /\ client' = None /\ call' = None /\ form' = None
    /\ result' = NoRet
    /\ UNCHANGED <<file, last_set, requests, stdout, respVars, mergeVars, raceVars, dataVars>>

Next == Start \/ ConfigShow \/ ConfigPath \/ ConfigSet \/ Exit

Spec == Init /\ [][Next]_vars

\* the value of key the run works with
RunValue(key) == IF key \in {"base_url", "format"} THEN Some(resolved[key]) ELSE resolved[key]

\* C8: after `arky config set K V` succeeded, a later run given no flag for K and
\* no environment variable for K works with K equal to V, for each of the four keys.
C8_ConfigSetReachesLaterRuns ==
    \A key \in Keys :
        (pc = "dispatch" /\ last_set[key].some /\ ~argv.flags[key].some
           /\ ~env[EnvVar[key]].some)
            => RunValue(key) = last_set[key]

(***************************************************************************)
(* One run of the process with any kind of subcommand: main dispatches to  *)
(* a handler (commands/*.rs), the handler prepares a call of the client,   *)
(* the client method runs, the handler ends, main exits.                   *)
(***************************************************************************)
\* variant: a missing business id counts as the empty one
require_business_idMutEmpty(c) ==
    IF c.business_id.some THEN Ok(c.business_id.v) ELSE Ok(<<>>)

\* ArkyClient::require_business_id
require_business_id(c) ==
    IF c.business_id.some THEN Ok(c.business_id.v) ELSE ErrConfig

\* json!(s) for a String of plain characters
json_String(text) == JStr(text[1].v)

\* Path::file_name and Path::extension, for a path of one component
file_name(path) == IF path = <<>> THEN None ELSE Some(path)
extension(path) ==
    IF Len(path) >= 3 /\ path[Len(path) - 1] = Punct(".") /\ path[Len(path)].k = "word"
    THEN Some(path[Len(path)].v)
    ELSE None

RECURSIVE read_filesMutSkip(_, _, _, _)
\* variant: a path that does not exist or cannot be read is left out
read_filesMutSkip(files, paths, file_data, rd) ==
    IF paths = <<>> THEN [result |-> Ok(Unit), file_data |-> file_data, reads |-> rd]
    ELSE LET path == Head(paths) IN
         IF path \notin DOMAIN files \/ ~files[path].some
         THEN read_filesMutSkip(files, Tail(paths), file_data, rd)
         ELSE read_filesMutSkip(files, Tail(paths),
                                Append(file_data,
                                       FileData(unwrap_or_else(file_name(path), Plain("file")),
                                                files[path].v, extension(path))),
                                Append(rd, FileRead(path)))

RECURSIVE read_files(_, _, _, _)
\* MediaCommand::Upload, the for loop over the paths still to come: a path that
\* does not exist is InvalidInput, a file that cannot be read is Io
read_files(files, paths, file_data, rd) ==
    IF paths = <<>> THEN [result |-> Ok(Unit), file_data |-> file_data, reads |-> rd]
    ELSE LET path == Head(paths) IN
         IF path \notin DOMAIN files
         THEN [result |-> ErrInvalidInput, file_data |-> file_data, reads |-> rd]
         ELSE IF ~files[path].some
         THEN [result |-> ErrIo, file_data |-> file_data, reads |-> Append(rd, FileRead(path))]
         ELSE read_files(files, Tail(paths),
                         Append(file_data,
                                FileData(unwrap_or_else(file_name(path), Plain("file")),
                                         files[path].v, extension(path))),
                         Append(rd, FileRead(path)))

\* the files of the run: two that can be read, one that cannot, and no "missing"
PhotoPath == <<Word("photo"), Punct("."), Word("PNG")>>
NotesPath == Plain("notes")
LockedPath == <<Word("locked"), Punct("."), Word("pdf")>>
MissingPath == <<Word("missing"), Punct("."), Word("json")>>
RunFs ==
    [path \in {PhotoPath, NotesPath, LockedPath} |->
       CASE path = PhotoPath -> Some(Plain("bytes of photo"))
         [] path = NotesPath -> Some(ObjectText)
         [] OTHER -> None]

\* --data texts: an object with an id of its own, an object with a market
OtherIdText == <<Punct("{"), Str("id"), Punct(":"), Str("node_2"), Punct("}")>>
MarketText == <<Punct("{"), Str("market"), Punct(":"), Str("eu"), Punct("}")>>

\* the subcommands of the run
NonEmptySeqsUpTo(S, n) == SeqsUpTo(S, n) \ {<<>>}
HttpCommands ==
    { [name |-> "auth whoami"], [name |-> "node list"],
      [name |-> "node delete", id |-> Plain("node_1")],
      [name |-> "db delete", db_key |-> Plain("k")],
      [name |-> "auth verify", email |-> Plain("a@b.c"), code |-> Plain("123456")],
      [name |-> "auth session"],
      [name |-> "business delete", id |-> Plain("biz_9")] }
      \cup { [name |-> "node update", id |-> Plain("node_1"), data |-> d] :
             d \in {None, Some(ObjectText), Some(OtherIdText), Some(ArrayText)} }
      \cup { [name |-> "booking create", data |-> d] :
             d \in {None, Some(ObjectText), Some(MarketText), Some(ArrayText),
                    Some(<<Word("null")>>), Some(<<Str("text")>>), Some(<<Num(1)>>),
                    Some(<<Word("true")>>), Some(Plain("not json"))} }
      \cup { [name |-> "node create", node_key |-> Plain("page"), data |-> d] :
             d \in {None, Some(ObjectText), Some(Plain("not json")),
                    Some(<<Punct("@")>> \o NotesPath), Some(<<Punct("@")>> \o MissingPath)} }
      \cup { [name |-> "media upload", files |-> fl] :
             fl \in NonEmptySeqsUpTo({PhotoPath, NotesPath}, MaxFiles)
                      \cup { <<MissingPath>>, <<PhotoPath, LockedPath>> } }
RunCommands == Commands \cup HttpCommands

\* the command lines of the run: those of Argvs, and --business-id ""
RunFlags ==
    { FlagsOf(ks) : ks \in UpTo(Keys, MaxFlags) }
      \cup { [FlagsOf({"business_id"}) EXCEPT !["business_id"] = Some(<<>>)] }
RunArgvs == { [flags |-> f, cmd |-> c] : f \in RunFlags, c \in RunCommands }

InitRun ==
    /\ file \in InitFiles
    /\ pc = "shell"
    /\ env = None /\ argv = None /\ cli = None /\ resolved = None /\ format = None
    /\ result = NoRet
    /\ exit_code = None
    /\ last_set = [key \in Keys |-> None]
    /\ requests = <<>>
    /\ stderr = <<>>
    /\ stdout = <<>>
    /\ data = None /\ stdin = Some(<<>>) /\ fs = RunFs /\ reads = <<>>
    /\ RespIdle /\ MergeIdle /\ RaceIdle /\ ClientIdle

\* the one run
StartRun == exit_code = None /\ StartWith(RunArgvs)

\* a handler calls a method of the client
Invoke(c) ==
    /\ call' = c
    /\ form' = <<>>
    /\ pc' = "call"
    /\ UNCHANGED result

\* a handler returns Err(e) before it called the client
Fail(e) ==
    /\ result' = e
    /\ pc' = "exit"
    /\ UNCHANGED <<call, form>>

\* what a handler leaves alone before its call of the client
HandlerFrame ==
    UNCHANGED <<file, env, argv, cli, resolved, format, exit_code, last_set, client,
                data, stdin, fs, outVars, respVars, mergeVars, raceVars>>

BusinessPath(biz_id, rest) == <<Word("/v1/businesses/")>> \o biz_id \o rest

\* auth::handle, AuthCommand::Whoami
AuthWhoami ==
    /\ pc = "dispatch" /\ argv.cmd.name = "auth whoami"
    /\ Invoke(Call("get", Plain("/v1/accounts/me"), NoParams, JNull, <<>>))
    /\ UNCHANGED reads
    /\ HandlerFrame

\* node::handle, NodeCommand::List with the default limit and no filter
NodeList ==
    /\ pc = "dispatch" /\ argv.cmd.name = "node list"
    /\ \E biz_id \in {require_business_id(client)} :
       IF biz_id.kind # "Ok" THEN Fail(biz_id)
       ELSE Invoke(Call("get", BusinessPath(biz_id.value, Plain("/nodes")),
                        << <<"limit", Plain("20")>> >>, JNull, <<>>))
    /\ UNCHANGED reads
    /\ HandlerFrame

\* node::handle, NodeCommand::Create without --parent-id
NodeCreate ==
    /\ pc = "dispatch" /\ argv.cmd.name = "node create"
    /\ \E biz_id \in {require_business_id(client)},
          overlay_r \in {parse_data(argv.cmd.data, stdin, fs)},
          body_0 \in {VObj([key \in {"key"} |-> json_String(argv.cmd.node_key)])} :
       IF biz_id.kind # "Ok" THEN Fail(biz_id) /\ UNCHANGED reads
       ELSE /\ reads' = reads \o overlay_r.reads
            /\ IF overlay_r.result.kind # "Ok" THEN Fail(overlay_r.result)
               ELSE Invoke(Call("post", BusinessPath(biz_id.value, Plain("/nodes")), NoParams,
                                merge_data(body_0, overlay_r.result.value), <<>>))
    /\ HandlerFrame

\* node::handle, NodeCommand::Update
NodeUpdate ==
    /\ pc = "dispatch" /\ argv.cmd.name = "node update"
    /\ \E biz_id \in {require_business_id(client)},
          overlay_r \in {parse_data(argv.cmd.data, stdin, fs)},
          body_0 \in {VObj([key \in {"id"} |-> json_String(argv.cmd.id)])} :
       IF biz_id.kind # "Ok" THEN Fail(biz_id) /\ UNCHANGED reads
       ELSE /\ reads' = reads \o overlay_r.reads
            /\ IF overlay_r.result.kind # "Ok" THEN Fail(overlay_r.result)
               ELSE Invoke(Call("put",
                                BusinessPath(biz_id.value, Plain("/nodes/") \o argv.cmd.id),
                                NoParams, merge_data(body_0, overlay_r.result.value), <<>>))
    /\ HandlerFrame

\* node::handle, NodeCommand::Delete
NodeDelete ==
    /\ pc = "dispatch" /\ argv.cmd.name = "node delete"
    /\ \E biz_id \in {require_business_id(client)} :
       IF biz_id.kind # "Ok" THEN Fail(biz_id)
       ELSE Invoke(Call("delete", BusinessPath(biz_id.value, Plain("/nodes/") \o argv.cmd.id),
                        NoParams, JNull, <<>>))
    /\ UNCHANGED reads
    /\ HandlerFrame

\* database::handle, DatabaseCommand::Delete
DbDelete ==
    /\ pc = "dispatch" /\ argv.cmd.name = "db delete"
    /\ Invoke(Call("delete_with_params", Plain("/v1/platform/data"),
                   << <<"key", argv.cmd.db_key>> >>, JNull, <<>>))
    /\ UNCHANGED reads
    /\ HandlerFrame

\* media::handle, MediaCommand::Upload
MediaUpload ==
    /\ pc = "dispatch" /\ argv.cmd.name = "media upload"
    /\ \E biz_id \in {require_business_id(client)},
          r \in {read_files(fs, argv.cmd.files, <<>>, <<>>)} :
       IF biz_id.kind # "Ok" THEN Fail(biz_id) /\ UNCHANGED reads
       ELSE /\ reads' = reads \o r.reads
            /\ IF r.result.kind # "Ok" THEN Fail(r.result)
               ELSE Invoke(Call("upload", BusinessPath(biz_id.value, Plain("/media")), NoParams,
                                JNull, r.file_data))
    /\ HandlerFrame

\* auth::handle, AuthCommand::Verify: the request
AuthVerify ==
    /\ pc = "dispatch" /\ argv.cmd.name = "auth verify"
    /\ Invoke(Call("post", Plain("/v1/auth/verify"), NoParams,
                   VObj([key \in {"email", "code"} |->
                           IF key = "email" THEN json_String(argv.cmd.email)
                           ELSE json_String(argv.cmd.code)]), <<>>))
    /\ UNCHANGED reads
    /\ HandlerFrame

\* auth::handle, AuthCommand::Session: the request
AuthSession ==
    /\ pc = "dispatch" /\ argv.cmd.name = "auth session"
    /\ Invoke(Call("post", Plain("/v1/auth/session"), NoParams, VObj(EmptyMap), <<>>))
    /\ UNCHANGED reads
    /\ HandlerFrame

\* business::handle, BusinessCommand::Delete
BusinessDelete ==
    /\ pc = "dispatch" /\ argv.cmd.name = "business delete"
    /\ Invoke(Call("delete", <<Word("/v1/businesses/")>> \o argv.cmd.id, NoParams, JNull, <<>>))
    /\ UNCHANGED reads
    /\ HandlerFrame

\* Value::get(key): the member of an object, None for any other value
get(v, key) == IF v.t = "obj" /\ key \in DOMAIN v.o THEN Some(v.o[key]) ELSE None

\* variant: indexing a value that is no object leaves the value as it is
index_or_insertMutLenient(v, key, value) ==
    IF v.t = "null" THEN Some(VObj(insert(EmptyMap, key, value)))
    ELSE IF v.t = "obj" THEN Some(VObj(insert(v.o, key, value)))
    ELSE Some(v)

\* serde_json's IndexMut<&str> for Value, `v[key] = value`: null becomes an
\* object, an object gets the member, any other value panics (None)
index_or_insert(v, key, value) ==
    IF v.t = "null" THEN Some(VObj(insert(EmptyMap, key, value)))
    ELSE IF v.t = "obj" THEN Some(VObj(insert(v.o, key, value)))
    ELSE None

\* if body.get(key).is_none() { body[key] = value; }: the body afterwards, None
\* when the assignment panics
with_default(body_0, key, value) ==
    IF get(body_0, key).some THEN Some(body_0) ELSE index_or_insert(body_0, key, value)

\* the thread panicked: the handler never returns
Panic ==
    /\ pc' = "panicked"
    /\ UNCHANGED <<result, call, form>>

\* booking::handle, BookingCommand::Create
BookingCreate ==
    /\ pc = "dispatch" /\ argv.cmd.name = "booking create"
    /\ \E biz_id \in {require_business_id(client)},
          body_r \in {parse_data(argv.cmd.data, stdin, fs)} :
       IF biz_id.kind # "Ok" THEN Fail(biz_id) /\ UNCHANGED reads
       ELSE /\ reads' = reads \o body_r.reads
            /\ IF body_r.result.kind # "Ok" THEN Fail(body_r.result)
               ELSE \E body_1 \in {with_default(body_r.result.value, "market", JStr("default"))} :
                      IF body_1.some
                      THEN Invoke(Call("post", BusinessPath(biz_id.value, Plain("/bookings")),
                                       NoParams, body_1.v, <<>>))
                      ELSE Panic
    /\ HandlerFrame

\* the panic message goes to standard error and the process ends with the
\* exit code of a panic, 101
Abort ==
    /\ pc = "panicked"
    /\ stderr' = Append(stderr, [tag |-> "panic"])
    /\ exit_code' = Some(101)
    /\ pc' = "shell"
    /\ env' = None /\ argv' = None /\ cli' = None /\ resolved' = None /\ format' = None
    /\ client' = None /\ call' = None /\ form' = None
    /\ result' = NoRet
    /\ UNCHANGED <<file, last_set, requests, stdout, respVars, mergeVars, raceVars, dataVars>>

\* the subcommands whose handler ends with print_success
PrintsSuccess == {"node delete", "db delete", "business delete"}
\* the subcommands whose handler hands the response to print_output
PrintsOutput == {c.name : c \in HttpCommands} \ {"business delete"}
\* variant: `auth whoami` stores an access token as well
SavesTokenMutWhoami == {"auth verify", "auth session", "auth whoami"}

\* the subcommands whose handler stores the access token of the response
SavesToken == {"auth verify", "auth session"}

\* variant: `?` lets an error of the server through
TryMutApiRecovers(r) == r.kind \notin {"Ok", "Api"}

\* the `?` operator: whether r makes the handler return at once
Try(r) == r.kind # "Ok"

\* result.get("accessToken").and_then(|v| v.as_str()), then token.to_string()
access_token(v) ==
    IF get(v, "accessToken").some /\ get(v, "accessToken").v.t = "str"
    THEN Some(Plain(get(v, "accessToken").v.v))
    ELSE None

\* what the handler prints once its request and its saving went well
PrintResult(value) ==
    /\ stderr' = IF argv.cmd.name \in PrintsSuccess
                    \/ (argv.cmd.name \in SavesToken /\ access_token(value).some)
                 THEN print_success(stderr) ELSE stderr
    /\ stdout' = IF argv.cmd.name \in PrintsOutput THEN print_output(stdout, value, format)
                 ELSE stdout
    /\ result' = Ok(Unit)

\* variant: the token goes into a fresh Config
with_tokenMutFresh(cfg, token) == [ConfigDefault EXCEPT !["token"] = Some(token)]

\* cfg.token = Some(token.to_string())
with_token(cfg, token) == [cfg EXCEPT !["token"] = Some(token)]

\* auth.rs lines 66-71 and 78-83: the token goes into the loaded Config and
\* the Config is saved; a failed save ends the handler with the Io error
SaveToken(token) ==
    \E saved \in BOOLEAN :
        IF saved
        THEN /\ file' = save_file(with_token(load_file(file), token))
             /\ PrintResult(result.value)
        ELSE /\ result' = ErrIo
             /\ UNCHANGED <<file, stderr, stdout>>

\* the end of a handler after its call of the client: `?` hands an error on,
\* otherwise the token is stored, the result is printed and the handler
\* returns Ok(())
HandlerReturn ==
    /\ pc = "returned"
    /\ IF Try(result)
       THEN UNCHANGED <<result, stderr, stdout, file>>
       ELSE IF result.kind = "Ok" /\ argv.cmd.name \in SavesToken
                 /\ access_token(result.value).some
       THEN SaveToken(access_token(result.value).v)
       ELSE /\ PrintResult(IF result.kind = "Ok" THEN result.value ELSE JNull)
            /\ UNCHANGED file
    /\ pc' = "exit"
    /\ UNCHANGED <<env, argv, cli, resolved, format, exit_code, last_set, requests,
                   clientVars, dataVars, respVars, mergeVars, raceVars>>

NextRun ==
    \/ StartRun \/ ConfigShow \/ ConfigPath \/ ConfigSet
    \/ AuthWhoami \/ AuthVerify \/ AuthSession
    \/ NodeList \/ NodeCreate \/ NodeUpdate \/ NodeDelete \/ DbDelete \/ BusinessDelete
    \/ BookingCreate \/ MediaUpload
    \/ Get \/ Post \/ Put \/ Delete \/ DeleteWithParams \/ UploadPart \/ UploadSend
    \/ HandlerReturn \/ Exit \/ Abort

SpecRun == InitRun /\ [][NextRun]_vars

\* the part of a run in which the handler has decided how it ends or goes on
Handled == pc \in {"call", "returned", "exit"}

C16_ExitCode ==
    [][(pc = "exit" /\ pc' = "shell") =>
         IF result.kind = "Ok"
         THEN exit_code' = Some(0)
         ELSE /\ result.kind \in {"Http", "Api", "Config", "InvalidInput", "Io", "Json"}
              /\ exit_code' = Some(1)
              /\ stderr' = Append(stderr, ErrorLine(result))]_vars

\* the process ended with code 1 and the error of the server on standard error
C16_Witness ==
    /\ pc = "shell" /\ exit_code = Some(1)
    /\ stderr # <<>>
    /\ stderr[Len(stderr)].tag = "ERROR"
    /\ stderr[Len(stderr)].err.kind = "Api"

\* the subcommands whose handler calls require_business_id
NeedsBusinessId == {"node list", "node create", "node update", "node delete", "media upload"}

\* C17: in a handler that calls require_business_id, an absent business id makes
\* the handler return a Config error with no HTTP request sent; a present one is
\* the value require_business_id returns, the one the path of the call holds
C17_RequireBusinessId ==
    (Handled /\ argv.cmd.name \in NeedsBusinessId) =>
        IF resolved.business_id.some
        THEN /\ require_business_id(client) = Ok(resolved.business_id.v)
             /\ pc \in {"call", "returned"} =>
                    SubSeq(call.path, 1, 1 + Len(resolved.business_id.v))
                        = BusinessPath(resolved.business_id.v, <<>>)
        ELSE pc = "exit" /\ result = ErrConfig /\ requests = <<>>

\* `media upload` without a business id ended with the Config error
C17_Witness ==
    /\ pc = "exit" /\ argv.cmd.name = "media upload"
    /\ ~resolved.business_id.some
    /\ result = ErrConfig /\ requests = <<>>

\* C18: with no token resolved, `auth whoami` fails with a Config error before
\* any HTTP request is sent
C18_NoTokenIsConfigError ==
    (Handled /\ argv.cmd.name = "auth whoami" /\ ~resolved.token.some) =>
        (pc = "exit" /\ result = ErrConfig /\ requests = <<>>)

\* C19: with ARKY_BUSINESS_ID unset and --business-id "", `node list` fails with
\* a Config error and sends no HTTP request
C19_EmptyBusinessIdIsNotSet ==
    (/\ Handled /\ argv.cmd.name = "node list"
     /\ argv.flags["business_id"] = Some(<<>>)
     /\ ~env["ARKY_BUSINESS_ID"].some) =>
        (pc = "exit" /\ result = ErrConfig /\ requests = <<>>)

\* the handler has met an error: its call of the client returned one, or it
\* returns one to main
Failed == pc \in {"returned", "exit"} /\ result.kind \notin {"Ok", NoRet.kind}

\* C21: once a handler has met its first error, it returns that same error and
\* does nothing more: no HTTP request is sent, nothing is printed to standard
\* output and the config file is not written (a failed `auth verify` request
\* leaves the stored token as it was)
C21_FailFast ==
    [][Failed =>
         /\ requests' = requests
         /\ stdout' = stdout
         /\ file' = file
         /\ pc' # "shell" => (pc' = "exit" /\ result' = result)]_vars

\* `auth verify` was refused by the server: the handler returns the Api error
\* with the one request sent, nothing on standard output
C21_Witness ==
    /\ pc = "exit" /\ argv.cmd.name = "auth verify"
    /\ result.kind = "Api"
    /\ Len(requests) = 1 /\ stdout = <<>>

\* C22: the config file is written only by `config set`, `auth verify` and
\* `auth session`: no step of a run of any other subcommand, whatever its
\* outcome, changes the file, so its content at the exit is the one at the start
C22_OnlyThreeWriters ==
    [][file' # file =>
         (pc # "shell" /\ argv.cmd.name \in {"config set", "auth verify", "auth session"})]_vars

\* `node delete` went well; an access token in the response was not stored
C22_Witness ==
    /\ pc = "exit" /\ argv.cmd.name = "node delete"
    /\ result = Ok(Unit) /\ Len(requests) = 1
    /\ stdout # <<>> /\ access_token(stdout[1].value).some

(***************************************************************************)
(* main's last step on any error: the text Display gives it goes to        *)
(* standard error.                                                         *)
(***************************************************************************)
\* the messages of an Api error: the fallback, a message of the server, and a
\* raw body of two lines
ApiMessages ==
    { Plain("Request failed"), <<Word("not"), Ws, Word("found")>>,
      <<Word("Bad"), Ws, Word("Gateway"), Lf, Word("nginx")>> }
ApiEntries ==
    { [field |-> Plain("email"), error |-> Plain("required")],
      [field |-> Plain("name"), error |-> <<Word("too"), Ws, Word("long")>>] }
DisplayErrors ==
    { ErrApi(st, m, e, ves) :
        st \in {400, 422}, m \in ApiMessages, e \in {None, Some(Plain("NOT_FOUND"))},
        ves \in SeqsUpTo(ApiEntries, MaxValidationErrors) }
      \cup {ErrHttp, ErrJson, ErrConfig, ErrInvalidInput, ErrIo}

InitDisplay ==
    /\ pc = "exit"
    /\ result \in DisplayErrors
    /\ file = None
    /\ env = None /\ argv = None /\ cli = None /\ resolved = None /\ format = None
    /\ exit_code = None
    /\ last_set = [key \in Keys |-> None]
    /\ requests = <<>>
    /\ stderr = <<>>
    /\ stdout = <<>>
    /\ RespIdle /\ MergeIdle /\ RaceIdle /\ DataIdle /\ ClientIdle

NextDisplay == Exit

SpecDisplay == InitDisplay /\ [][NextDisplay]_vars

IsLf(x) == x.k = "ws" /\ x.v = "\n"

RECURSIVE Lines(_, _)
\* the lines of a text: cur is the line begun, txt what is still to come
Lines(txt, cur) ==
    IF txt = <<>> THEN <<cur>>
    ELSE IF IsLf(Head(txt)) THEN <<cur>> \o Lines(Tail(txt), <<>>)
    ELSE Lines(Tail(txt), Append(cur, Head(txt)))

\* no line feed in the message, the error tag, the fields and the errors of e
NoLineFeed(e) ==
    /\ \A i \in DOMAIN e.message : ~IsLf(e.message[i])
    /\ e.error.some => \A i \in DOMAIN e.error.v : ~IsLf(e.error.v[i])
    /\ \A n \in DOMAIN e.validation_errors :
         /\ \A i \in DOMAIN e.validation_errors[n].field :
              ~IsLf(e.validation_errors[n].field[i])
         /\ \A i \in DOMAIN e.validation_errors[n].error :
              ~IsLf(e.validation_errors[n].error[i])

\* the text printed for e is a header line with the status, the message and the
\* error tag if any, then one line per validation error, in list order, with
\* the field and the error of the entry, and nothing else
HeaderAndEntryLines(e, lines) ==
    /\ Len(lines) = 1 + Len(e.validation_errors)
    /\ lines[1] = <<Word("API error ("), Num(e.status), Word("): ")>> \o e.message
                    \o (IF e.error.some THEN <<Word(" [")>> \o e.error.v \o <<Word("]")>>
                        ELSE <<>>)
    /\ \A n \in DOMAIN e.validation_errors :
         lines[n + 1] = <<Word("  - ")>> \o e.validation_errors[n].field
                          \o <<Word(": ")>> \o e.validation_errors[n].error

\* the Api error printed last, if the last line printed is one
PrintedApiError ==
    /\ stderr # <<>>
    /\ stderr[Len(stderr)].tag = "ERROR"
    /\ stderr[Len(stderr)].err.kind = "Api"

C24_DeletePrintsNoJson ==
    (/\ pc = "exit"
     /\ argv.cmd.name \in {"node delete", "db delete", "business delete"}
     /\ result = Ok(Unit)) =>
        /\ stderr # <<>> /\ stderr[Len(stderr)] = OkLine
        /\ stdout = <<>>

\* C25: for every --data value that is valid JSON, of any type, a handler that
\* adds a default field after parse_data (`booking create` adding market)
\* returns Ok or a CliError: it never panics, and the exit code is 0 or 1
C25_DefaultFieldNeverPanics ==
    /\ pc # "panicked"
    /\ exit_code \in {None, Some(0), Some(1)}

\* C26: for an update subcommand that builds its body from {"id": <id>} and
\* --data (`node update`), whatever --data holds, the "id" field of the body
\* of the request sent equals the id at the end of the request's path
C26_BodyIdIsPathId ==
    (pc \in {"returned", "exit"} /\ argv.cmd.name = "node update") =>
        \A n \in 1..Len(requests) :
            requests[n].payload.json.o["id"]
              = json_String(SubSeq(requests[n].url, Len(requests[n].url), Len(requests[n].url)))

\* the response of a request that went well has a string field accessToken
HasStringToken(v) ==
    v.t = "obj" /\ "accessToken" \in DOMAIN v.o /\ v.o["accessToken"].t = "str"

\* the request of `auth verify` or `auth session` went well and the handler goes on
TokenStep ==
    /\ pc = "returned" /\ argv.cmd.name \in {"auth verify", "auth session"}
    /\ result.kind = "Ok"

\* the file is rewritten: what it held is kept but for token, which is the
\* accessToken of the response, and the command returns Ok
TokenStored ==
    /\ file'.some
    /\ load_file(file') = [load_file(file) EXCEPT
                             !["token"] = Some(Plain(result.value.o["accessToken"].v))]
    /\ result' = Ok(Unit)

ValidSetKeys == {"base_url", "base-url", "business_id", "business-id", "token", "format"}
NamedField(k) ==
    CASE k \in {"base_url", "base-url"} -> "base_url"
      [] k \in {"business_id", "business-id"} -> "business_id"
      [] OTHER -> k

\* `config set` is about to run
SetStep == pc = "dispatch" /\ argv.cmd.name = "config set"

\* the file afterwards has the named field equal to the value given and the
\* other three fields as before
FieldStored ==
    /\ file'.some
    /\ load_file(file') = [load_file(file) EXCEPT
                             ![NamedField(argv.cmd.key)] = Some(argv.cmd.value)]

AllReadable(paths) ==
    \A i \in DOMAIN paths : paths[i] \in DOMAIN fs /\ fs[paths[i]].some

\* C29: `media upload` checks and reads every file before the upload request
\* is built; if a path of the list does not exist or cannot be read the command
\* returns an error and sends no HTTP request, so no subset of the files is
\* uploaded; otherwise the parts sent are the files in argument order
C29_AllFilesOrNone ==
    (Handled /\ argv.cmd.name = "media upload") =>
        /\ ~AllReadable(argv.cmd.files) =>
              (pc = "exit" /\ result.kind \in {"InvalidInput", "Io", "Config"}
                 /\ requests = <<>>)
        /\ pc \in {"call", "returned"} =>
              reads = [i \in DOMAIN argv.cmd.files |-> FileRead(argv.cmd.files[i])]
        /\ \A n \in 1..Len(requests) :
              /\ requests[n].payload.kind = "multipart"
              /\ Len(requests[n].payload.parts) = Len(argv.cmd.files)
              /\ \A i \in DOMAIN argv.cmd.files :
                   /\ requests[n].payload.parts[i].file_name = argv.cmd.files[i]
                   /\ requests[n].payload.parts[i].bytes = fs[argv.cmd.files[i]].v

\* the second file of two cannot be read: the Io error, and nothing was sent
C29_Witness ==
    /\ pc = "exit" /\ argv.cmd.name = "media upload"
    /\ argv.cmd.files = <<PhotoPath, LockedPath>>
    /\ result = ErrIo /\ requests = <<>>
    /\ reads = <<FileRead(PhotoPath), FileRead(LockedPath)>>

(***************************************************************************)
(* Two processes that update the config file at the same time.  Neither    *)
(* load_file nor save_file takes a lock, so the reads and writes of the    *)
(* two processes interleave freely.                                        *)
(***************************************************************************)

Procs == {1, 2}

\* the update of the file a command makes: the field it sets and the value
RaceUpdates ==
    { [name |-> "config set", field |-> k, value |-> SetValue[k]] : k \in Keys }
      \cup { [name |-> n, field |-> "token", value |-> Plain("tok_new")] :
               n \in SavesToken }

InitRace ==
    /\ file \in InitFiles
    /\ procs \in { [p \in Procs |-> [pc |-> "start", update |-> u[p], cfg |-> None,
                                     result |-> NoRet]] :
                     u \in { v \in [Procs -> RaceUpdates] : v[1].field # v[2].field } }
    /\ pc = "idle"
    /\ env = None /\ argv = None /\ cli = None /\ resolved = None /\ format = None
    /\ result = None /\ exit_code = None /\ last_set = None
    /\ RespIdle /\ MergeIdle /\ DataIdle /\ ClientIdle /\ OutIdle

\* Config::load_file followed by the assignment of the field: `config set`
\* (config_cmd.rs lines 59-64) and the two auth commands (auth.rs lines 67-68
\* and 79-80, after the response with the token has come)
Load(p) ==
    /\ procs /= None /\ procs[p].pc = "start"
    /\ LET u == procs[p].update
           cfg == IF u.name = "config set"
                  THEN set_field(load_file(file), u.field, u.value)
                  ELSE with_token(load_file(file), u.value) IN
       procs' = [procs EXCEPT ![p].pc = "loaded", ![p].cfg = Some(cfg)]
    /\ UNCHANGED <<respVars, procVars, mergeVars, dataVars, clientVars, outVars>>

\* cfg.save_file()?: the whole Config the process holds replaces the file; a
\* failed save ends the command with the Io error
Save(p) ==
    /\ procs /= None /\ procs[p].pc = "loaded"
    /\ \E saved \in BOOLEAN :
         IF saved
         THEN /\ file' = save_file(procs[p].cfg.v)
              /\ procs' = [procs EXCEPT ![p].pc = "done", ![p].result = Ok(Unit)]
         ELSE /\ procs' = [procs EXCEPT ![p].pc = "done", ![p].result = ErrIo]
              /\ UNCHANGED file
    /\ UNCHANGED <<env, argv, cli, resolved, format, pc, result, exit_code, last_set,
                   respVars, mergeVars, dataVars, clientVars, outVars>>

NextRace == \E p \in Procs : Load(p) \/ Save(p)

SpecRace == InitRace /\ [][NextRace]_vars

\* C30: two processes that update two different fields of the config file run
\* at the same time; once both have finished with Ok the file holds both
\* updates, under every interleaving of their load_file and save_file steps
C30_NoLostUpdate ==
    (procs /= None /\ \A p \in Procs : procs[p].pc = "done" /\ procs[p].result.kind = "Ok")
        => \A p \in Procs :
             load_file(file)[procs[p].update.field] = Some(procs[p].update.value)

====
